---- MODULE Spec2Model ----
(***************************************************************************)
(* State-machine model of the Nullbr resource search plugin                *)
(* (plugins.v2/nullbrsearch): the conversational dispatcher `talk`, its    *)
(* handlers, the two per-user session caches, the priority walk over the   *)
(* resource types and the CloudSyncMedia transfer client with its token.   *)
(*                                                                         *)
(* Texts are sequences of one-character strings so that rstrip, strip,     *)
(* the regular expression, isdigit, split and int are computed as the      *)
(* code computes them.  The full-width question mark is the character      *)
(* "FWQ".  Python's None is the string NoneVal where the value is a        *)
(* string, the number 0 for a missing tmdbid, and the empty sequence for   *)
(* an optional object.                                                     *)
(***************************************************************************)
EXTENDS Integers, Sequences, FiniteSets, TLC

VARIABLES now, enabled, client, api_key, resource_priority, enable_types,
          cms_enabled, cms_client, user_search_cache, user_resource_cache,
          last,
          handlers,   \* the talk() invocations in progress, one per worker
          written     \* the entries as the handlers' stores put them

vars == <<now, enabled, client, api_key, resource_priority, enable_types,
          cms_enabled, cms_client, user_search_cache, user_resource_cache,
          last, handlers, written>>

raceVars == <<handlers, written>>

pluginVars == <<enabled, client, api_key, resource_priority, enable_types,
                cms_enabled, user_search_cache, user_resource_cache>>

(***************************************************************************)
(* Program constants                                                       *)
(***************************************************************************)
CacheTTL == 3600

TokenRefreshMargin == 3600

TokenLifetime == 86400

MaxResults == 10

NoneVal == "<None>"

Types == {"115", "magnet", "video", "ed2k"}

DefaultPriority == <<"115", "magnet", "ed2k", "video">>

Users == {"u1", "u2"}

(***************************************************************************)
(* Generic helpers                                                         *)
(***************************************************************************)
\* A slice that keeps the whole list.
Take_all(s, n) == s

Take(s, n) == SubSeq(s, 1, IF Len(s) < n THEN Len(s) ELSE n)

Range(s) == {s[i] : i \in 1..Len(s)}

RECURSIVE SelectSeqBy(_, _)
SelectSeqBy(s, keep) ==
    IF s = <<>> THEN <<>>
    ELSE IF keep[1] THEN <<s[1]>> \o SelectSeqBy(Tail(s), Tail(keep))
         ELSE SelectSeqBy(Tail(s), Tail(keep))

(***************************************************************************)
(* Text handling of talk(): rstrip, strip, re.match, isdigit, split, int   *)
(***************************************************************************)
DigitChars == {"0", "1", "2", "3", "4", "5", "6", "7", "8", "9"}

\* Characters str.isdigit() accepts that are no decimal digits: re's \d does
\* not match them and int() raises ValueError on them ("SUP2" is the
\* superscript two).
SuperscriptChars == {"SUP2"}

QuestionMarks == {"?", "FWQ"}

Whitespace == {" "}

DigitVal(c) ==
    CASE c = "0" -> 0 [] c = "1" -> 1 [] c = "2" -> 2 [] c = "3" -> 3
      [] c = "4" -> 4 [] c = "5" -> 5 [] c = "6" -> 6 [] c = "7" -> 7
      [] c = "8" -> 8 [] c = "9" -> 9

TypeChars ==
    [ty \in Types |->
        CASE ty = "115" -> <<"1", "1", "5">>
          [] ty = "magnet" -> <<"m", "a", "g", "n", "e", "t">>
          [] ty = "video" -> <<"v", "i", "d", "e", "o">>
          [] ty = "ed2k" -> <<"e", "d", "2", "k">>]

RECURSIVE RStrip(_, _)
RStrip(s, cs) ==
    IF s = <<>> THEN s
    ELSE IF s[Len(s)] \in cs THEN RStrip(SubSeq(s, 1, Len(s) - 1), cs)
         ELSE s

RECURSIVE LStrip(_, _)
LStrip(s, cs) ==
    IF s = <<>> THEN s
    ELSE IF s[1] \in cs THEN LStrip(Tail(s), cs)
         ELSE s

\* A strip() that leaves the blanks in place.
Strip_none(s) == s

Strip(s) == LStrip(RStrip(s, Whitespace), Whitespace)

\* A clean_text that keeps the trailing question marks.
CleanText_keepmarks(text) == Strip(text)

CleanText(text) == Strip(RStrip(text, QuestionMarks))

\* str.isdigit()
IsDigit(s) ==
    s # <<>> /\ \A i \in 1..Len(s) : s[i] \in DigitChars \cup SuperscriptChars

\* \d+ of the regular expression
IsDecimal(s) == s # <<>> /\ \A i \in 1..Len(s) : s[i] \in DigitChars

\* int(s) raises ValueError
IntRaises(s) == ~IsDecimal(s)

FirstDot(s) ==
    IF \E i \in 1..Len(s) : s[i] = "."
    THEN CHOOSE i \in 1..Len(s) :
            s[i] = "." /\ \A j \in 1..(i - 1) : s[j] # "."
    ELSE 0

RECURSIVE SplitDot(_)
SplitDot(s) ==
    LET d == FirstDot(s)
    IN  IF d = 0 THEN <<s>>
        ELSE <<SubSeq(s, 1, d - 1)>> \o SplitDot(SubSeq(s, d + 1, Len(s)))

RECURSIVE ToInt(_)
ToInt(s) ==
    IF s = <<>> THEN 0
    ELSE 10 * ToInt(SubSeq(s, 1, Len(s) - 1)) + DigitVal(s[Len(s)])

\* re.match(r'^\d+\.(115|magnet|video|ed2k)$', clean_text)
MatchesResourceRequest(s) ==
    LET d == FirstDot(s)
    IN  /\ d > 1
        /\ IsDecimal(SubSeq(s, 1, d - 1))
        /\ \E ty \in Types : SubSeq(s, d + 1, Len(s)) = TypeChars[ty]

TypeOfChars(cs) ==
    IF \E ty \in Types : TypeChars[ty] = cs
    THEN CHOOSE ty \in Types : TypeChars[ty] = cs
    ELSE NoneVal

EndsWithQuestionMark(text) == text # <<>> /\ text[Len(text)] \in QuestionMarks

\* A classification that tests the trailing question mark first.
Classify_searchfirst(text) ==
    LET clean_text == CleanText(text)
        none == [kind |-> "ignore", number |-> 0, resource_type |-> NoneVal,
                 keyword |-> <<>>]
    IN  IF EndsWithQuestionMark(text) /\ clean_text # <<>>
        THEN [none EXCEPT !.kind = "search", !.keyword = clean_text]
        ELSE IF MatchesResourceRequest(clean_text)
        THEN [none EXCEPT !.kind = "resource",
                          !.number = ToInt(SplitDot(clean_text)[1]),
                          !.resource_type =
                              TypeOfChars(SplitDot(clean_text)[2])]
        ELSE IF IsDigit(clean_text) /\ IntRaises(clean_text)
        THEN [none EXCEPT !.kind = "raise"]
        ELSE IF IsDigit(clean_text)
        THEN [none EXCEPT !.kind = "number", !.number = ToInt(clean_text)]
        ELSE none

\* The if / elif / elif chain of talk(): first match wins.  Kind "raise" is
\* the all-digit branch whose int(clean_text) raises.
Classify(text) ==
    LET clean_text == CleanText(text)
    IN  IF MatchesResourceRequest(clean_text)
        THEN [kind |-> "resource",
              number |-> ToInt(SplitDot(clean_text)[1]),
              resource_type |-> TypeOfChars(SplitDot(clean_text)[2]),
              keyword |-> <<>>]
        ELSE IF IsDigit(clean_text) /\ IntRaises(clean_text)
        THEN [kind |-> "raise", number |-> 0, resource_type |-> NoneVal,
              keyword |-> <<>>]
        ELSE IF IsDigit(clean_text)
        THEN [kind |-> "number", number |-> ToInt(clean_text),
              resource_type |-> NoneVal, keyword |-> <<>>]
        ELSE IF EndsWithQuestionMark(text)
        THEN [kind |-> IF clean_text # <<>> THEN "search" ELSE "ignore",
              number |-> 0, resource_type |-> NoneVal,
              keyword |-> clean_text]
        ELSE [kind |-> "ignore", number |-> 0, resource_type |-> NoneVal,
              keyword |-> <<>>]

(***************************************************************************)
(* CloudSyncMediaClient: token, expiry and Authorization header            *)
(***************************************************************************)
\* Python truthiness of self.token: None and the empty string are falsy.
Truthy(tok) == tok # NoneVal /\ tok # ""

\* Outcomes of POST /api/auth/login as _login sees them: "ok" is a body
\* with code 200 and data.token; "http401" and "http_error" are HTTPErrors
\* of raise_for_status; "bad_code" is a body whose code is not 200 or that
\* lacks data (ValueError of _login; a connection fault propagates the same
\* way); "no_token" is a body with code 200 whose data lacks the token
\* (_login returns, login_data['token'] raises KeyError).
LoginKinds == {"ok", "http401", "http_error", "bad_code", "no_token"}

Tokens == {"t1", "t2", ""}

LoginResponses ==
    {[kind |-> "ok", token |-> tk] : tk \in Tokens}
      \cup {[kind |-> k, token |-> NoneVal] : k \in LoginKinds \ {"ok"}}

\* Outcomes of POST /api/cloud/add_share_down: a JSON body with code 200,
\* a JSON body with another code, HTTP 401, another HTTP error status, or
\* any other exception (connection fault, body that is not JSON).
PostKinds == {"code200", "code_other", "http401", "http_error", "exception"}

LoginEvent(resp) == [ev |-> "login", resp |-> resp.kind, auth |-> NoneVal]

PostEvent(c, kind) == [ev |-> "post", resp |-> kind, auth |-> c.auth]

NewClientState == [token |-> NoneVal, token_expiry |-> 0, auth |-> NoneVal]

\* A refresh that waits for the expiry itself.
NeedsLogin_nomargin(c, t) == ~Truthy(c.token) \/ t >= c.token_expiry

NeedsLogin(c, t) ==
    ~Truthy(c.token) \/ t >= c.token_expiry - TokenRefreshMargin

\* A token check that forgets the token it held when the login fails.
EnsureValidToken_forget(c, t, resp) ==
    IF NeedsLogin(c, t)
    THEN IF resp.kind = "ok"
         THEN [c |-> [token |-> resp.token,
                      token_expiry |-> t + TokenLifetime,
                      auth |-> resp.token],
               exc |-> NoneVal, trace |-> <<LoginEvent(resp)>>]
         ELSE [c |-> NewClientState, exc |-> resp.kind,
               trace |-> <<LoginEvent(resp)>>]
    ELSE [c |-> c, exc |-> NoneVal, trace |-> <<>>]

\* _ensure_valid_token with _login inlined; resp is the login endpoint's
\* answer, consumed only when a login is performed.
EnsureValidToken(c, t, resp) ==
    IF NeedsLogin(c, t)
    THEN IF resp.kind = "ok"
         THEN [c |-> [token |-> resp.token,
                      token_expiry |-> t + TokenLifetime,
                      auth |-> resp.token],
               exc |-> NoneVal, trace |-> <<LoginEvent(resp)>>]
         ELSE [c |-> c, exc |-> resp.kind, trace |-> <<LoginEvent(resp)>>]
    ELSE [c |-> c, exc |-> NoneVal, trace |-> <<>>]

\* The handler `except requests.exceptions.HTTPError` of add_share_down for
\* status 401: discard the token, ensure a token, post again.
RetryAfter401(c, t, env, trace) ==
    LET c1 == [c EXCEPT !.token = NoneVal]
        e2 == EnsureValidToken(c1, t, env.login2)
    IN  IF e2.exc # NoneVal
        THEN [c |-> e2.c, ret |-> NoneVal, exc |-> e2.exc,
              trace |-> trace \o e2.trace]
        ELSE [c |-> e2.c,
              ret |-> IF env.post2 \in {"code200", "code_other"}
                      THEN env.post2 ELSE NoneVal,
              exc |-> IF env.post2 \in {"code200", "code_other"}
                      THEN NoneVal ELSE env.post2,
              trace |-> trace \o e2.trace \o <<PostEvent(e2.c, env.post2)>>]

\* Which exceptions raised inside the try block reach the 401 branch: every
\* HTTPError with status 401, whichever request raised it.
CaughtAs401(exc) == exc = "http401"

\* add_share_down(url).  env gives the answers of the (at most) two logins
\* and two posts of one call.
AddShareDown(c, t, url, env) ==
    IF url = ""
    THEN [c |-> c, ret |-> NoneVal, exc |-> "ValueError", trace |-> <<>>]
    ELSE LET e1 == EnsureValidToken(c, t, env.login1)
         IN  IF e1.exc # NoneVal
             THEN IF CaughtAs401(e1.exc)
                  THEN RetryAfter401(e1.c, t, env, e1.trace)
                  ELSE [c |-> e1.c, ret |-> NoneVal, exc |-> e1.exc,
                        trace |-> e1.trace]
             ELSE LET tr == e1.trace \o <<PostEvent(e1.c, env.post1)>>
                  IN  IF env.post1 \in {"code200", "code_other"}
                      THEN [c |-> e1.c, ret |-> env.post1, exc |-> NoneVal,
                            trace |-> tr]
                      ELSE IF CaughtAs401(env.post1)
                      THEN RetryAfter401(e1.c, t, env, tr)
                      ELSE [c |-> e1.c, ret |-> NoneVal, exc |-> env.post1,
                            trace |-> tr]

(***************************************************************************)
(* Data of the external search API                                         *)
(***************************************************************************)
\* A JSON key that is not present (dict.get then yields its default).
Missing == "<missing>"

Get(v, default) == IF v = Missing THEN default ELSE v

\* A test for None in place of the truth value of the string.
TruthyStr_notnone(v) == v # Missing /\ v # NoneVal

\* `if url:` and the other truth tests of a string that may be None
TruthyStr(v) == v # Missing /\ v # NoneVal /\ v # ""

\* Search hits: tmdbid 0 stands for a missing id; flags is the set of
\* resource types whose "<type>-flg" is true.
HitMatrix ==
    [title |-> "The Matrix", media_type |-> "movie", tmdbid |-> 603,
     flags |-> {"115", "magnet", "video"}]

HitDark ==
    [title |-> "Dark", media_type |-> "tv", tmdbid |-> 70523,
     flags |-> {"magnet", "ed2k"}]

HitNoId ==
    [title |-> "Lost Reel", media_type |-> "movie", tmdbid |-> 0,
     flags |-> {"115"}]

HitCollection ==
    [title |-> "Matrix Collection", media_type |-> "collection",
     tmdbid |-> 2344, flags |-> {"115"}]

\* What GET /search can produce for search(): None (any failure) or a
\* body with an item list.
\* The length of a search response longer than the list the plugin keeps.
ManyHits == 11

\* A response of ManyHits hits that carry no resource flag.
HitSequel(i) ==
    [title |-> "Sequel", media_type |-> "movie", tmdbid |-> 1000 + i,
     flags |-> {}]

HitsMany == [i \in 1..ManyHits |-> HitSequel(i)]

\* What search returns: None (some = FALSE) or the parsed body; http is the
\* record of the requests that produced it, when they are modelled.
SearchResult(some, items, http) ==
    [some |-> some, items |-> items, http |-> http]

SearchResponses ==
    {SearchResult(FALSE, <<>>, <<>>),
     SearchResult(TRUE, <<>>, <<>>),
     SearchResult(TRUE, <<HitMatrix, HitNoId>>, <<>>),
     SearchResult(TRUE, <<HitDark, HitMatrix, HitCollection>>, <<>>)}

RawEntry(share_link, magnet, url, link, title, name, size) ==
    [share_link |-> share_link, magnet |-> magnet, url |-> url,
     link |-> link, title |-> title, name |-> name, size |-> size]

\* The records the API returns under each resource type's key.
Catalog ==
    [ty \in Types |->
        CASE ty = "115" ->
                <<RawEntry("https://115.com/s/a", Missing, Missing, Missing,
                           "Matrix 4K", Missing, "50G"),
                  RawEntry("", Missing, Missing, Missing,
                           "Matrix 1080p", Missing, "12G"),
                  RawEntry("https://115.com/s/b", Missing, Missing, Missing,
                           Missing, Missing, Missing)>>
          [] ty = "magnet" ->
                <<RawEntry(Missing, "magnet:?xt=urn:btih:1", Missing, Missing,
                           Missing, "Matrix.mkv", "8G")>>
          [] ty = "video" ->
                <<RawEntry(Missing, Missing, NoneVal, "http://v/1.m3u8",
                           Missing, "Matrix stream", Missing)>>
          [] ty = "ed2k" ->
                <<RawEntry(Missing, Missing, Missing, "ed2k://|file|x|",
                           Missing, "Matrix.avi", Missing),
                  RawEntry(Missing, Missing, "ed2k://|file|y|", Missing,
                           "Matrix.rmvb", Missing, "1G")>>]

\* A body of ManyHits records of one type; the second record has an empty
\* link.
RecordsMany(ty) ==
    [i \in 1..ManyHits |->
        LET link == IF i = 2 THEN "" ELSE "https://r/" \o ToString(i)
        IN  RawEntry(IF ty = "115" THEN link ELSE Missing,
                     IF ty = "magnet" THEN link ELSE Missing,
                     IF ty \in {"video", "ed2k"} THEN link ELSE Missing,
                     Missing, "Part " \o ToString(i), Missing, "1G")]

\* What get_movie_resources / get_tv_resources return: "none" is None (a
\* transport fault or any status other than 200), "emptydict" is {},
\* "empty" is a body without records for the type, "full" is a body with
\* the catalogue's records ("many" is a body with more records than the
\* plugin keeps, used where list lengths matter).
FetchKinds == {"none", "emptydict", "empty", "full"}

FetchResponse(kind, ty) ==
    CASE kind = "none" -> [some |-> FALSE, truthy |-> FALSE, list |-> <<>>]
      [] kind = "emptydict" ->
            [some |-> TRUE, truthy |-> FALSE, list |-> <<>>]
      [] kind = "empty" -> [some |-> TRUE, truthy |-> TRUE, list |-> <<>>]
      [] kind = "full" ->
            [some |-> TRUE, truthy |-> TRUE, list |-> Catalog[ty]]
      [] kind = "many" ->
            [some |-> TRUE, truthy |-> TRUE, list |-> RecordsMany(ty)]

(***************************************************************************)
(* NullbrApiClient: the requests behind search and the resource fetches    *)
(***************************************************************************)
\* Retry(total=3, ...): the number of retries the mounted adapter allows.
RetryTotal == 3

StatusForcelist == {429, 500, 502, 503, 504, 408}

\* What one transmission of a GET yields: a response with a status, a
\* timeout or connection fault, or another exception of the session.
Response(status) == [kind |-> "response", status |-> status]

Fault == [kind |-> "fault", status |-> 0]

OtherError == [kind |-> "error", status |-> 0]

Statuses == {200, 400, 401, 403, 404, 429}

RawAnswers == {Response(st) : st \in Statuses} \cup {Fault, OtherError}

\* The answer to the k-th transmission on a path; a transmission the
\* answers do not cover gets a plain 200.
AnswerAt(raws, k) == IF k <= Len(raws) THEN raws[k] ELSE Response(200)

Sent(path, raw) == [kind |-> raw.kind, status |-> raw.status, path |-> path]

\* session.get through an adapter that allows `left` more retries and
\* retries the statuses of `forcelist`: a response outside the forcelist is
\* returned; a response of the forcelist or a connection fault is retried
\* while retries are left, and raises RetryError respectively
\* ConnectionError when none is; any other exception is raised at once.
RECURSIVE SessionGet(_, _, _, _, _, _)
SessionGet(path, left, forcelist, raws, k, sent) ==
    LET raw == AnswerAt(raws, k)
        sent2 == Append(sent, Sent(path, raw))
    IN  IF raw.kind = "response" /\ raw.status \notin forcelist
        THEN [exc |-> NoneVal, status |-> raw.status, sent |-> sent2]
        ELSE IF raw.kind = "error"
        THEN [exc |-> "RequestException", status |-> 0, sent |-> sent2]
        ELSE IF left > 0
        THEN SessionGet(path, left - 1, forcelist, raws, k + 1, sent2)
        ELSE [exc |-> IF raw.kind = "fault" THEN "ConnectionError"
                      ELSE "RetryError",
              status |-> 0, sent |-> sent2]

\* _make_request: the client's session with the mounted retry adapter when
\* use_proxy, a fresh requests.Session (no retries) otherwise.
MakeRequest(use_proxy, raws) ==
    IF use_proxy
    THEN SessionGet("proxy", RetryTotal, StatusForcelist, raws, 1, <<>>)
    ELSE SessionGet("direct", 0, {}, raws, 1, <<>>)

\* A handler that takes the direct path after any exception.
TriesDirect_any(exc) == exc # NoneVal

\* `except (Timeout, ConnectTimeout, ReadTimeout, ConnectionError)`
TriesDirect(exc) == exc = "ConnectionError"

\* The request of search / get_movie_resources / get_tv_resources: the
\* proxied attempt, then the direct attempt after a timeout or connection
\* fault.  failed stands for the `return None` of the exception handlers.
Request(env) ==
    LET p == MakeRequest(TRUE, env.proxy)
    IN  IF p.exc = NoneVal
        THEN [failed |-> FALSE, status |-> p.status, sent |-> p.sent]
        ELSE IF TriesDirect(p.exc)
        THEN LET d == MakeRequest(FALSE, env.direct)
             IN  [failed |-> d.exc # NoneVal, status |-> d.status,
                  sent |-> p.sent \o d.sent]
        ELSE [failed |-> TRUE, status |-> 0, sent |-> p.sent]

\* search(query): the parsed body for status 200, None otherwise; a body
\* that is not JSON raises inside the try block and gives None as well.
ClientSearch(env) ==
    LET r == Request(env)
    IN  IF ~r.failed /\ r.status = 200 /\ env.body # "bad_json"
        THEN SearchResult(TRUE, env.items, r.sent)
        ELSE SearchResult(FALSE, <<>>, r.sent)

\* A fetch that sends its request whether or not there is an API key.
ClientGetResources_nokeytest(key, ty, env) ==
    LET r == Request(env)
    IN  IF ~r.failed /\ r.status = 200 /\ env.body # "bad_json" /\ Truthy(key)
        THEN [ret |-> FetchResponse(env.body, ty), sent |-> r.sent]
        ELSE [ret |-> FetchResponse("none", ty), sent |-> r.sent]

\* get_movie_resources / get_tv_resources: None without an API key, before
\* any request; otherwise as search.
ClientGetResources(key, ty, env) ==
    IF ~Truthy(key)
    THEN [ret |-> FetchResponse("none", ty), sent |-> <<>>]
    ELSE LET r == Request(env)
         IN  IF ~r.failed /\ r.status = 200 /\ env.body # "bad_json"
             THEN [ret |-> FetchResponse(env.body, ty), sent |-> r.sent]
             ELSE [ret |-> FetchResponse("none", ty), sent |-> r.sent]

(***************************************************************************)
(* Observation of one handled message (the value of `last`)                *)
(***************************************************************************)
Reply(kind, n, s, items) == [kind |-> kind, n |-> n, s |-> s, items |-> items]

NoObs ==
    [op |-> "init", user |-> NoneVal, text |-> <<>>, source |-> NoneVal,
     handler |-> "none", number |-> 0, resource_type |-> NoneVal,
     keyword |-> <<>>, replies |-> <<>>, fetches |-> <<>>,
     fallback |-> <<>>, selected |-> <<>>, transfer |-> <<>>,
     url |-> NoneVal, reads |-> <<>>, entered |-> <<>>, api_items |-> <<>>,
     pre |-> <<>>, exc |-> NoneVal, ret |-> NoneVal, at |-> 0,
     http |-> <<>>, api_ret |-> <<>>, media |-> NoneVal,
     escaped |-> NoneVal, events |-> <<>>, worker |-> NoneVal,
     entry |-> <<>>, checked |-> <<>>]

\* The host's threads that run talk(); each handles one message at a time.
Workers == {"w1", "w2"}

\* The locals of one talk() invocation: where it stands, the message's
\* user, number, type and keyword, and the entry its `cache` variable holds.
Idle ==
    [pc |-> "idle", user |-> NoneVal, number |-> 0, resource_type |-> NoneVal,
     keyword |-> <<>>, cache |-> <<>>, checked |-> <<>>,
     current_time |-> 0, login_data |-> NoneVal, retried |-> FALSE]

\* One access of a handler to a user's cache entry: whether the entry was
\* there, its age and the length of its list when it was read.
Read(cache, reader, present, age, size) ==
    [cache |-> cache, reader |-> reader, present |-> present, age |-> age,
     size |-> size]

Result(sc, rc, cms, obs) == [sc |-> sc, rc |-> rc, cms |-> cms, obs |-> obs]

\* A store that keeps the entry a user already has.
Put_keep(cache, u, e) ==
    [x \in DOMAIN cache \cup {u} |->
        IF x \in DOMAIN cache THEN cache[x] ELSE e]

\* `cache[userid] = {...}`
Put(cache, u, e) ==
    [x \in DOMAIN cache \cup {u} |-> IF x = u THEN e ELSE cache[x]]

Age(cache, u, t) == IF u \in DOMAIN cache THEN t - cache[u].timestamp ELSE 0

Size(cache, u, field) == IF u \in DOMAIN cache THEN Len(cache[u][field]) ELSE 0

\* A range test that lets the index 0 through.
InvalidIndex_zero(number, n) == number < 0 \/ number > n

\* `number < 1 or number > len(results)`
InvalidIndex(number, n) == number < 1 \/ number > n

\* Python's list[i] for -len <= i < len: a negative index counts from the end.
PyItem(list, i) == IF i < 0 THEN list[Len(list) + 1 + i] ELSE list[i + 1]

\* A test of the response alone, not of the list of the type in it.
WalkHit_anyresponse(resources) == resources.some /\ resources.truthy

\* `if resources and resources.get(priority_type)` of the priority walk
WalkHit(resources) ==
    resources.some /\ resources.truthy /\ resources.list # <<>>

\* A handler that only tests for the presence of the entry.
HandlerCacheExpired_present(cache, u, t) == u \notin DOMAIN cache

\* `not cache or time.time() - cache['timestamp'] > 3600` of the handlers
HandlerCacheExpired(cache, u, t) ==
    u \notin DOMAIN cache \/ t - cache[u].timestamp > CacheTTL

\* `userid in cache` and `time.time() - cache['timestamp'] < 3600` of talk
DispatcherCacheLive(cache, u, t) ==
    u \in DOMAIN cache /\ t - cache[u].timestamp < CacheTTL

(***************************************************************************)
(* Handlers of NullbrSearch.  Each is a function of the caches, the time   *)
(* and the answers of the external systems; it yields the new caches, the  *)
(* new transfer-client state and the observation of what it did.           *)
(***************************************************************************)
\* A lookup of the per-type switch that always finds its default.
EnabledType_default(ty) == TRUE

EnabledType(ty) == ty \notin Types \/ ty \in enable_types

CmsReady == cms_enabled /\ cms_client # <<>>

\* A fallback that posts its advice for the keyword it was not given.
Fallback_keyword(o, kind, title, keyword) ==
    [o EXCEPT
        !.fallback = Append(@, [kind |-> "keyword", title |-> NoneVal,
                                keyword |-> keyword]),
        !.replies = Append(@, Reply("fallback_advice", 0, "", <<>>))]

\* fallback_to_moviepilot_search -> try_alternative_search: exactly one
\* advice message is posted (its wording depends on the host's indexers and
\* is not distinguished here); query is the keyword or the title passed in.
Fallback(o, kind, title, keyword) ==
    [o EXCEPT
        !.fallback = Append(@, [kind |-> kind, title |-> title,
                                keyword |-> keyword]),
        !.replies = Append(@, Reply("fallback_advice", 0, title, <<>>))]

UrlOf(resource_type, res) ==
    IF resource_type = "115" THEN Get(res.share_link, "")
    ELSE IF resource_type = "magnet" THEN Get(res.magnet, "")
    ELSE IF resource_type \in {"video", "ed2k"}
    THEN Get(res.url, Get(res.link, ""))
    ELSE ""

ShownLink(resource_type, res) ==
    IF resource_type = "115" THEN Get(res.share_link, "-")
    ELSE IF resource_type = "magnet" THEN Get(res.magnet, "-")
    ELSE Get(res.url, Get(res.link, "-"))

ItemOf(resource_type, res) ==
    [url |-> UrlOf(resource_type, res),
     title |-> Get(res.title, Get(res.name, "unknown")),
     size |-> Get(res.size, "unknown"),
     type |-> resource_type]

\* The loop `for res in resource_list[:10]: ... if url: append`
RECURSIVE ResourceCacheItems(_, _)
ResourceCacheItems(resource_type, list) ==
    IF list = <<>> THEN <<>>
    ELSE IF TruthyStr(UrlOf(resource_type, list[1]))
         THEN <<ItemOf(resource_type, list[1])>>
                \o ResourceCacheItems(resource_type, Tail(list))
         ELSE ResourceCacheItems(resource_type, Tail(list))

\* A formatter that stores an entry for an empty record list as well.
FormatAndSendResources_always(o, sc, rc, cms, u, t, resources, resource_type, title) ==
    LET resource_list == resources.list
        shown == Take(resource_list, MaxResults)
    IN  Result(sc,
               Put(rc, u,
                   [resources |-> ResourceCacheItems(resource_type, shown),
                    title |-> title,
                    resource_type |-> resource_type,
                    timestamp |-> t]),
               cms,
               [o EXCEPT !.replies =
                   Append(@, Reply(IF resource_list = <<>> THEN "no_resource"
                                   ELSE "resources",
                                   Len(resource_list), resource_type,
                                   [i \in 1..Len(shown) |->
                                       ShownLink(resource_type, shown[i])]))])

FormatAndSendResources(o, sc, rc, cms, u, t, resources, resource_type, title) ==
    LET resource_list == resources.list
        shown == Take(resource_list, MaxResults)
    IN  IF resource_list = <<>>
        THEN Result(sc, rc, cms,
                [o EXCEPT !.replies =
                    Append(@, Reply("no_resource", 0, resource_type, <<>>))])
        ELSE Result(sc,
                Put(rc, u,
                    [resources |-> ResourceCacheItems(resource_type, shown),
                     title |-> title,
                     resource_type |-> resource_type,
                     timestamp |-> t]),
                cms,
                [o EXCEPT !.replies =
                    Append(@, Reply("resources", Len(resource_list),
                                    resource_type,
                                    [i \in 1..Len(shown) |->
                                        ShownLink(resource_type, shown[i])]))])

\* The call of get_movie_resources / get_tv_resources chosen by media_type;
\* no call is made for any other media_type.
FetchCalled(media_type) == media_type \in {"movie", "tv"}

ClientFetch(kind, ty) ==
    IF ~Truthy(api_key) THEN FetchResponse("none", ty)
    ELSE FetchResponse(kind, ty)

HandleGetResources(sc, rc, cms, u, t, number, resource_type, kind) ==
    LET o0 == [NoObs EXCEPT !.handler = "get_resources", !.number = number,
                            !.resource_type = resource_type]
    IN  IF ~Truthy(api_key)
        THEN Result(sc, rc, cms,
                [o0 EXCEPT !.replies = <<Reply("config_error", 0, "", <<>>)>>])
        ELSE IF HandlerCacheExpired(sc, u, t)
        THEN Result(sc, rc, cms,
                [o0 EXCEPT
                    !.replies = <<Reply("expired", 0, "", <<>>)>>,
                    !.reads = <<Read("search", "get_resources", u \in DOMAIN sc,
                                     Age(sc, u, t), Size(sc, u, "results"))>>])
        ELSE LET results == sc[u].results
                 o1 == [o0 EXCEPT !.reads =
                            <<Read("search", "get_resources", TRUE,
                                   Age(sc, u, t), Len(results))>>]
             IN  IF InvalidIndex(number, Len(results))
                 THEN Result(sc, rc, cms,
                        [o1 EXCEPT !.replies =
                            <<Reply("invalid", Len(results), "", <<>>)>>])
                 ELSE LET selected == PyItem(results, number - 1)
                          o2 == [o1 EXCEPT !.selected = <<selected>>]
                      IN  IF selected.tmdbid = 0
                          THEN Result(sc, rc, cms,
                                [o2 EXCEPT !.replies =
                                    <<Reply("missing_tmdbid", 0, "", <<>>)>>])
                          ELSE LET called == FetchCalled(selected.media_type)
                                   resources ==
                                     IF called
                                     THEN ClientFetch(kind, resource_type)
                                     ELSE FetchResponse("none", resource_type)
                                   o3 == [o2 EXCEPT
                                            !.replies =
                                              <<Reply("fetching", 0,
                                                      selected.title, <<>>)>>,
                                            !.fetches =
                                              IF called
                                              THEN <<[type |-> resource_type,
                                                      kind |-> kind]>>
                                              ELSE <<>>]
                               IN  IF ~(resources.some /\ resources.truthy)
                                   THEN Result(sc, rc, cms,
                                          Fallback(
                                            [o3 EXCEPT !.replies =
                                               Append(@, Reply("fallback_notice",
                                                    0, selected.title, <<>>))],
                                            "title", selected.title, <<>>))
                                   ELSE FormatAndSendResources(o3, sc, rc, cms,
                                          u, t, resources, resource_type,
                                          selected.title)

\* The `for priority_type in self._resource_priority` loop, from position i:
\* skip a type whose flag is not set on the hit or that is disabled, fetch
\* the others in order and stop at the first non-empty record list.
\* answers[k] is what the API returns to the k-th fetch of the walk.
RECURSIVE PriorityWalk(_, _, _, _)
PriorityWalk(i, selected, answers, fetched) ==
    IF i > Len(resource_priority)
    THEN [found |-> FALSE, type |-> NoneVal,
          resources |-> FetchResponse("none", NoneVal), fetches |-> fetched]
    ELSE LET priority_type == resource_priority[i]
         IN  IF priority_type \notin selected.flags
             THEN PriorityWalk(i + 1, selected, answers, fetched)
             ELSE IF ~EnabledType(priority_type)
             THEN PriorityWalk(i + 1, selected, answers, fetched)
             ELSE LET called == FetchCalled(selected.media_type)
                      kind == answers[Len(fetched) + 1]
                      resources ==
                        IF called THEN ClientFetch(kind, priority_type)
                        ELSE FetchResponse("none", priority_type)
                      fetched2 ==
                        IF called
                        THEN Append(fetched, [type |-> priority_type,
                                              kind |-> kind])
                        ELSE fetched
                  IN  IF WalkHit(resources)
                      THEN [found |-> TRUE, type |-> priority_type,
                            resources |-> resources, fetches |-> fetched2]
                      ELSE PriorityWalk(i + 1, selected, answers, fetched2)

\* A walk that does not look at the hit's tmdbid.
GetResourcesByPriority_noidtest(o, sc, rc, cms, u, t, selected, answers) ==
    LET o1 == [o EXCEPT !.entered = Append(@, "get_resources_by_priority")]
        w == PriorityWalk(1, selected, answers, <<>>)
        o2 == [o1 EXCEPT !.fetches = w.fetches]
    IN  IF w.found
        THEN FormatAndSendResources(
                [o2 EXCEPT !.replies =
                    Append(@, Reply("got", 0, w.type, <<>>))],
                sc, rc, cms, u, t, w.resources, w.type, selected.title)
        ELSE Result(sc, rc, cms,
                Fallback(
                  [o2 EXCEPT !.replies =
                     Append(@, Reply("fallback_notice", 0,
                                     selected.title, <<>>))],
                  "title", selected.title, <<>>))

GetResourcesByPriority(o, sc, rc, cms, u, t, selected, answers) ==
    LET o1 == [o EXCEPT !.entered = Append(@, "get_resources_by_priority")]
    IN  IF selected.tmdbid = 0
        THEN Result(sc, rc, cms,
                [o1 EXCEPT !.replies =
                    Append(@, Reply("missing_tmdbid", 0, "", <<>>))])
        ELSE LET w == PriorityWalk(1, selected, answers, <<>>)
                 o2 == [o1 EXCEPT !.fetches = w.fetches]
             IN  IF w.found
                 THEN FormatAndSendResources(
                        [o2 EXCEPT !.replies =
                            Append(@, Reply("got", 0, w.type, <<>>))],
                        sc, rc, cms, u, t, w.resources, w.type, selected.title)
                 ELSE Result(sc, rc, cms,
                        Fallback(
                          [o2 EXCEPT !.replies =
                             Append(@, Reply("fallback_notice", 0,
                                             selected.title, <<>>))],
                          "title", selected.title, <<>>))

\* A details reply that lists every type the hit is flagged for.
DetailOptions_all(selected) ==
    SelectSeq(<<"115", "magnet", "video", "ed2k">>,
              LAMBDA ty : ty \in selected.flags)

\* The resource types listed in the details reply, in the order of the code.
DetailOptions(selected) ==
    SelectSeq(<<"115", "magnet", "video", "ed2k">>,
              LAMBDA ty : ty \in selected.flags /\ ty \in enable_types)

HandleResourceSelection(sc, rc, cms, u, t, number, answers) ==
    LET o0 == [NoObs EXCEPT !.handler = "selection", !.number = number]
    IN  IF HandlerCacheExpired(sc, u, t)
        THEN Result(sc, rc, cms,
                [o0 EXCEPT
                    !.replies = <<Reply("expired", 0, "", <<>>)>>,
                    !.reads = <<Read("search", "selection", u \in DOMAIN sc,
                                     Age(sc, u, t), Size(sc, u, "results"))>>])
        ELSE LET results == sc[u].results
                 o1 == [o0 EXCEPT !.reads =
                            <<Read("search", "selection", TRUE,
                                   Age(sc, u, t), Len(results))>>]
             IN  IF InvalidIndex(number, Len(results))
                 THEN Result(sc, rc, cms,
                        [o1 EXCEPT !.replies =
                            <<Reply("invalid", Len(results), "", <<>>)>>])
                 ELSE LET selected == PyItem(results, number - 1)
                          o2 == [o1 EXCEPT !.selected = <<selected>>]
                      IN  IF ~Truthy(api_key)
                          THEN Result(sc, rc, cms,
                                [o2 EXCEPT !.replies =
                                    <<Reply("detail", selected.tmdbid,
                                            selected.title,
                                            DetailOptions(selected))>>])
                          ELSE GetResourcesByPriority(
                                [o2 EXCEPT !.replies =
                                    <<Reply("fetching", 0, selected.title,
                                            <<>>)>>],
                                sc, rc, cms, u, t, selected, answers)

\* A transfer that removes the resource entry it has used.
HandleResourceTransfer_consume(sc, rc, cms, u, t, resource_id, env) ==
    LET o0 == [NoObs EXCEPT !.handler = "transfer", !.number = resource_id]
    IN  IF ~cms_enabled \/ cms = <<>>
        THEN Result(sc, rc, cms,
                [o0 EXCEPT !.replies = <<Reply("cms_disabled", 0, "", <<>>)>>])
        ELSE IF HandlerCacheExpired(rc, u, t)
        THEN Result(sc, rc, cms,
                [o0 EXCEPT
                    !.replies = <<Reply("resource_expired", 0, "", <<>>)>>,
                    !.reads = <<Read("resource", "transfer", u \in DOMAIN rc,
                                     Age(rc, u, t),
                                     Size(rc, u, "resources"))>>])
        ELSE LET resources == rc[u].resources
                 o1 == [o0 EXCEPT !.reads =
                            <<Read("resource", "transfer", TRUE,
                                   Age(rc, u, t), Len(resources))>>]
             IN  IF InvalidIndex(resource_id, Len(resources))
                 THEN Result(sc, rc, cms,
                        [o1 EXCEPT !.replies =
                            <<Reply("invalid_resource", Len(resources), "",
                                    <<>>)>>])
                 ELSE LET selected_resource == PyItem(resources, resource_id - 1)
                          r == AddShareDown(cms[1], t, selected_resource.url,
                                            env)
                          outcome ==
                            IF r.exc # NoneVal THEN "transfer_error"
                            ELSE IF r.ret = "code200" THEN "transfer_ok"
                            ELSE "transfer_failed"
                      IN  Result(sc, [x \in DOMAIN rc \ {u} |-> rc[x]], <<r.c>>,
                            [o1 EXCEPT
                                !.url = selected_resource.url,
                                !.transfer = r.trace,
                                !.replies =
                                    <<Reply("transferring", 0,
                                            selected_resource.title, <<>>),
                                      Reply(outcome, 0,
                                            IF r.exc # NoneVal THEN r.exc
                                            ELSE selected_resource.title,
                                            <<>>)>>])

HandleResourceTransfer(sc, rc, cms, u, t, resource_id, env) ==
    LET o0 == [NoObs EXCEPT !.handler = "transfer", !.number = resource_id]
    IN  IF ~cms_enabled \/ cms = <<>>
        THEN Result(sc, rc, cms,
                [o0 EXCEPT !.replies = <<Reply("cms_disabled", 0, "", <<>>)>>])
        ELSE IF HandlerCacheExpired(rc, u, t)
        THEN Result(sc, rc, cms,
                [o0 EXCEPT
                    !.replies = <<Reply("resource_expired", 0, "", <<>>)>>,
                    !.reads = <<Read("resource", "transfer", u \in DOMAIN rc,
                                     Age(rc, u, t),
                                     Size(rc, u, "resources"))>>])
        ELSE LET resources == rc[u].resources
                 o1 == [o0 EXCEPT !.reads =
                            <<Read("resource", "transfer", TRUE,
                                   Age(rc, u, t), Len(resources))>>]
             IN  IF InvalidIndex(resource_id, Len(resources))
                 THEN Result(sc, rc, cms,
                        [o1 EXCEPT !.replies =
                            <<Reply("invalid_resource", Len(resources), "",
                                    <<>>)>>])
                 ELSE LET selected_resource == PyItem(resources, resource_id - 1)
                          r == AddShareDown(cms[1], t, selected_resource.url,
                                            env)
                          outcome ==
                            IF r.exc # NoneVal THEN "transfer_error"
                            ELSE IF r.ret = "code200" THEN "transfer_ok"
                            ELSE "transfer_failed"
                      IN  Result(sc, rc, <<r.c>>,
                            [o1 EXCEPT
                                !.url = selected_resource.url,
                                !.transfer = r.trace,
                                !.replies =
                                    <<Reply("transferring", 0,
                                            selected_resource.title, <<>>),
                                      Reply(outcome, 0,
                                            IF r.exc # NoneVal THEN r.exc
                                            ELSE selected_resource.title,
                                            <<>>)>>])

SearchAndReply(sc, rc, cms, u, t, keyword, result) ==
    LET o0 == [NoObs EXCEPT !.handler = "search", !.keyword = keyword,
                            !.api_items = result.items,
                            !.http = result.http,
                            !.api_ret = <<[some |-> result.some,
                                           items |-> result.items]>>]
    IN  IF ~result.some \/ result.items = <<>>
        THEN Result(sc, rc, cms,
                Fallback([o0 EXCEPT !.replies =
                            <<Reply("fallback_notice", 0, "", <<>>)>>],
                         "keyword", "", keyword))
        ELSE LET items == Take(result.items, MaxResults)
             IN  Result(Put(sc, u, [results |-> items, keyword |-> keyword,
                                    timestamp |-> t]),
                        rc, cms,
                        [o0 EXCEPT
                            !.replies =
                                <<Reply("search_results",
                                        Len(result.items) - Len(items), "",
                                        [i \in 1..Len(items) |->
                                            items[i].title])>>])

(***************************************************************************)
(* Inputs of the model                                                     *)
(***************************************************************************)
\* Instants at which something happens in a user's session: they give
\* cache entries of age 2, 3598, 3599, 3600 and 3601 seconds.
SessionTimes == {0, 2, 3600, 3601}

\* Instants around the token's refresh point, 82800 s after a login.
TokenTimes == {0, 1, 82800, 82801}

Txt1 == <<"1">>

Txt2 == <<"2">>

Txt3 == <<"3">>

Txt0 == <<"0">>

Txt10 == <<"1", "0">>

Txt11 == <<"1", "1">>

Txt1Dot115 == <<"1", ".", "1", "1", "5">>

Txt2DotMagnet == <<"2", ".", "m", "a", "g", "n", "e", "t">>

Txt1DotVideo == <<"1", ".", "v", "i", "d", "e", "o">>

Txt3DotEd2k == <<"3", ".", "e", "d", "2", "k">>

Txt0Dot115 == <<"0", ".", "1", "1", "5">>

TxtMatrixQ == <<"M", "a", "t", "r", "i", "x", "?">>

TxtDuneQ == <<"D", "u", "n", "e", "FWQ">>

TxtHi == <<"h", "i">>

TxtSup2 == <<"SUP2">>

Texts ==
    {Txt1, Txt2, Txt3, Txt0, Txt1Dot115, Txt2DotMagnet, Txt1DotVideo,
     Txt3DotEd2k, Txt0Dot115, TxtMatrixQ, TxtDuneQ, TxtHi, TxtSup2}

\* Inbound events: every text as a user message, one text of each class
\* also as a message marked as coming from the fallback path.
Messages ==
    {[text |-> tx, source |-> NoneVal] : tx \in Texts}
      \cup {[text |-> tx, source |-> "nullbr_fallback"] :
                tx \in {Txt1, Txt1Dot115, TxtMatrixQ, TxtSup2}}

\* The user whose conversation the session specification follows.
SessionUser == "u1"

Config(en, app, key, prios, types, cmsOn, cmsCreds) ==
    [enabled |-> en, app_id |-> app, api_key |-> key, priorities |-> prios,
     enable |-> types, cms_enabled |-> cmsOn, cms_creds |-> cmsCreds]

CfgFull ==
    Config(TRUE, "app", "key", <<"magnet", "115", "ed2k", "video">>, Types,
           TRUE, TRUE)

CfgNoKey ==
    Config(TRUE, "app", NoneVal, <<NoneVal, NoneVal, NoneVal, NoneVal>>,
           Types, TRUE, FALSE)

CfgNoKeyNoMagnet ==
    Config(TRUE, "app", NoneVal, <<NoneVal, NoneVal, NoneVal, NoneVal>>,
           Types \ {"magnet"}, TRUE, FALSE)

CfgNoCms ==
    Config(TRUE, "app", "key", <<"video", "115", "magnet", "ed2k">>,
           Types \ {"magnet"}, FALSE, FALSE)

Configs == {CfgFull, CfgNoKey, CfgNoCms}

LoginOk == [kind |-> "ok", token |-> "t1"]

Login401 == [kind |-> "http401", token |-> NoneVal]

CmsEnv(l1, p1, l2, p2) ==
    [login1 |-> l1, post1 |-> p1, login2 |-> l2, post2 |-> p2]

\* Answers of the transfer system to one add_share_down call of a session:
\* accepted, refused by the body's code, a fault, and a 401 followed by a
\* new login whose second post is accepted, answered 401 again, or whose
\* login fails.
TransferEnvs ==
    {CmsEnv(LoginOk, "code200", LoginOk, "code200"),
     CmsEnv(LoginOk, "code_other", LoginOk, "code200"),
     CmsEnv(LoginOk, "exception", LoginOk, "code200"),
     CmsEnv(LoginOk, "http401", LoginOk, "code200"),
     CmsEnv(LoginOk, "http401", LoginOk, "http401"),
     CmsEnv(Login401, "http401", Login401, "code200")}

WalkKinds == {"none", "empty", "full"}

NoAnswers == [k \in 1..4 |-> "none"]

\* Answers to the fetches of one priority walk that makes at most n
\* fetches: nothing is requested after the first "full" answer.
WalkAnswers(n, kinds) ==
    {a \in [1..4 -> kinds \cup {"none"}] :
        \A k \in 1..4 :
            \/ a[k] = "none"
            \/ k <= n /\ \A j \in 1..(k - 1) : a[j] # "full"}

(***************************************************************************)
(* init_plugin, stop_service                                               *)
(***************************************************************************)
RECURSIVE PriorityList(_, _)

\* A list that takes a value as often as it is configured.
RECURSIVE PriorityList_repeated(_, _)
PriorityList_repeated(prios, acc) ==
    IF prios = <<>> THEN acc
    ELSE IF Truthy(prios[1])
         THEN PriorityList_repeated(Tail(prios), Append(acc, prios[1]))
         ELSE PriorityList_repeated(Tail(prios), acc)

\* `if priority and priority not in priority_list: append`
PriorityList(prios, acc) ==
    IF prios = <<>> THEN acc
    ELSE IF Truthy(prios[1]) /\ prios[1] \notin Range(acc)
         THEN PriorityList(Tail(prios), Append(acc, prios[1]))
         ELSE PriorityList(Tail(prios), acc)

EffectivePriority(prios) ==
    IF Len(PriorityList(prios, <<>>)) < 4 THEN DefaultPriority
    ELSE PriorityList(prios, <<>>)

\* The attributes init_plugin(config) leaves behind when called at time t;
\* login is the transfer system's answer to the login that constructing the
\* CloudSyncMediaClient performs.
PluginAfterInit(config, login, t) ==
    LET built == EnsureValidToken(NewClientState, t, login)
        wantCms == config.cms_enabled /\ config.cms_creds
    IN  [enabled |-> config.enabled,
         api_key |-> config.api_key,
         resource_priority |-> EffectivePriority(config.priorities),
         enable_types |-> config.enable,
         client |-> (config.enabled /\ Truthy(config.app_id)),
         cms_enabled |-> IF wantCms /\ built.exc # NoneVal THEN FALSE
                         ELSE config.cms_enabled,
         cms_client |-> IF wantCms /\ built.exc = NoneVal THEN <<built.c>>
                        ELSE <<>>,
         trace |-> IF wantCms THEN built.trace ELSE <<>>]

(***************************************************************************)
(* talk                                                                    *)
(***************************************************************************)
\* A dispatcher that does not look at the timestamp of the entry.
DispatchNumber_noexpiry(rc, u, t, number) ==
    IF /\ CmsReady
       /\ u \in DOMAIN rc
       /\ 1 <= number /\ number <= Len(rc[u].resources)
    THEN "transfer"
    ELSE "selection"

\* The branch of talk() for an all-digit clean_text.
DispatchNumber(rc, u, t, number) ==
    IF /\ CmsReady
       /\ DispatcherCacheLive(rc, u, t)
       /\ 1 <= number /\ number <= Len(rc[u].resources)
    THEN "transfer"
    ELSE "selection"

TalkReads(rc, u, t) ==
    IF CmsReady /\ u \in DOMAIN rc
    THEN <<Read("resource", "talk", TRUE, Age(rc, u, t),
                Size(rc, u, "resources"))>>
    ELSE <<>>

\* A talk that does not look at the origin marker.
Processed_anysource(text, source) == enabled /\ client /\ text # <<>>

Processed(text, source) ==
    enabled /\ client /\ text # <<>> /\ source # "nullbr_fallback"

\* A talk that keeps only the speaking user's entries.
Apply_single(r, u, text, source) ==
    /\ user_search_cache' = [x \in DOMAIN r.sc \cap {u} |-> r.sc[x]]
    /\ user_resource_cache' = [x \in DOMAIN r.rc \cap {u} |-> r.rc[x]]
    /\ cms_client' = r.cms
    /\ last' = [r.obs EXCEPT !.op = "talk", !.user = u, !.text = text,
                             !.source = source]
    /\ UNCHANGED <<raceVars, now, enabled, client, api_key, resource_priority,
                   enable_types, cms_enabled>>

Apply(r, u, text, source) ==
    /\ user_search_cache' = r.sc
    /\ user_resource_cache' = r.rc
    /\ cms_client' = r.cms
    /\ last' = [r.obs EXCEPT !.op = "talk", !.user = u, !.text = text,
                             !.source = source]
    /\ UNCHANGED <<raceVars, now, enabled, client, api_key, resource_priority,
                   enable_types, cms_enabled>>

\* talk(event) for a message of user u.  inp gives the answers the
\* external systems may give while it is handled.
Talk(u, text, source, inp) ==
    LET cls == Classify(text)
        sc == user_search_cache
        rc == user_resource_cache
    IN  IF ~Processed(text, source) \/ cls.kind = "ignore"
        THEN Apply(Result(sc, rc, cms_client, NoObs), u, text, source)
        ELSE IF cls.kind = "raise"
        THEN Apply(Result(sc, rc, cms_client,
                          [NoObs EXCEPT !.escaped = "ValueError"]),
                   u, text, source)
        ELSE IF cls.kind = "resource"
        THEN \E kind \in inp.fetch :
                Apply(HandleGetResources(sc, rc, cms_client, u, now,
                                         cls.number, cls.resource_type, kind),
                      u, text, source)
        ELSE IF cls.kind = "number"
        THEN IF DispatchNumber(rc, u, now, cls.number) = "transfer"
             THEN \E env \in inp.transfer :
                    LET r == HandleResourceTransfer(sc, rc, cms_client, u, now,
                                                    cls.number, env)
                    IN  Apply([r EXCEPT !.obs.reads =
                                    TalkReads(rc, u, now) \o @],
                              u, text, source)
             ELSE LET probe == HandleResourceSelection(sc, rc, cms_client, u,
                                    now, cls.number, NoAnswers)
                  IN  \E answers \in WalkAnswers(Len(probe.obs.fetches),
                                                 inp.walk) :
                        LET r == HandleResourceSelection(sc, rc, cms_client,
                                    u, now, cls.number, answers)
                        IN  Apply([r EXCEPT !.obs.reads =
                                        TalkReads(rc, u, now) \o @],
                                  u, text, source)
        ELSE \E result \in inp.search :
                Apply(SearchAndReply(sc, rc, cms_client, u, now, cls.keyword,
                                     result),
                      u, text, source)

Tick ==
    /\ \E t \in SessionTimes : t > now /\ now' = t
    /\ last' = [NoObs EXCEPT !.op = "tick"]
    /\ UNCHANGED <<raceVars, pluginVars, cms_client>>

\* A plugin the host has constructed and initialised with config at time 0.
Initialised(config, login) ==
    LET p == PluginAfterInit(config, login, 0)
    IN  /\ now = 0
        /\ enabled = p.enabled
        /\ client = p.client
        /\ api_key = p.api_key
        /\ resource_priority = p.resource_priority
        /\ enable_types = p.enable_types
        /\ cms_enabled = p.cms_enabled
        /\ cms_client = p.cms_client
        /\ user_search_cache = <<>>
        /\ user_resource_cache = <<>>
        /\ last = [NoObs EXCEPT !.op = "init_plugin", !.transfer = p.trace]
        /\ handlers = [w \in Workers |-> Idle]
        /\ written = [search |-> <<>>, resource |-> <<>>]

(***************************************************************************)
(* Conversation specification: one user's conversation with a plugin the   *)
(* host has initialised with one of the configurations; every answer of    *)
(* the external systems is possible.                                       *)
(***************************************************************************)
AllAnswers ==
    [search |-> SearchResponses, fetch |-> FetchKinds, walk |-> WalkKinds,
     transfer |-> TransferEnvs]

Init == \E config \in Configs : Initialised(config, LoginOk)

Message == \E m \in Messages : Talk(SessionUser, m.text, m.source, AllAnswers)

Next == Message

Spec == Init /\ [][Next]_vars

(***************************************************************************)
(* Expiry specification: the same conversation with time passing between   *)
(* the messages, over fewer texts and answers.                             *)
(***************************************************************************)
TimedTexts ==
    {TxtMatrixQ, TxtDuneQ, Txt0, Txt1, Txt2, Txt3, Txt10, Txt11, Txt1Dot115,
     Txt0Dot115}

TimedAnswers ==
    [search |-> {SearchResult(TRUE, <<HitMatrix, HitNoId>>, <<>>),
                 SearchResult(TRUE, <<HitDark, HitMatrix, HitCollection>>,
                              <<>>),
                 SearchResult(TRUE, HitsMany, <<>>)},
     fetch |-> {"none", "full"},
     walk |-> {"full"},
     transfer |-> {CmsEnv(LoginOk, "code200", LoginOk, "code200"),
                   CmsEnv(LoginOk, "exception", LoginOk, "code200")}]

InitTTL == \E config \in Configs : Initialised(config, LoginOk)

TimedMessage ==
    \E text \in TimedTexts : Talk(SessionUser, text, NoneVal, TimedAnswers)

NextTTL == TimedMessage \/ Tick

SpecTTL == InitTTL /\ [][NextTTL]_vars

(***************************************************************************)
(* Dispatch specification: the conversation over the surface forms of the  *)
(* numeric and '<n>.<type>' messages (padding, leading zeros, several      *)
(* digits, trailing question marks of both kinds).                         *)
(***************************************************************************)
Pads == {<<>>, <<" ">>}

NumberChars == {<<"1">>, <<"0">>, <<"1", "2">>, <<"0", "2">>}

TypeSuffixes == {<<>>} \cup {<<".">> \o TypeChars[ty] : ty \in Types}

Trails ==
    {<<>>, <<"?">>, <<"FWQ">>, <<"?", "FWQ">>, <<" ", "?">>, <<"?", " ">>}

DispatchTexts ==
    {pad \o num \o suffix \o trail :
        pad \in Pads, num \in NumberChars, suffix \in TypeSuffixes,
        trail \in Trails}
      \cup {TxtMatrixQ, TxtHi}

DispatchAnswers ==
    [search |-> {SearchResult(TRUE, <<HitMatrix, HitNoId>>, <<>>)},
     fetch |-> {"full"},
     walk |-> {"full"},
     transfer |-> {CmsEnv(LoginOk, "code200", LoginOk, "code200")}]

InitDispatch == Initialised(CfgFull, LoginOk)

DispatchedMessage ==
    \E text \in DispatchTexts :
        Talk(SessionUser, text, NoneVal, DispatchAnswers)

NextDispatch == DispatchedMessage

SpecDispatch == InitDispatch /\ [][NextDispatch]_vars

(***************************************************************************)
(* Transfer-client specification: calls of _ensure_valid_token and         *)
(* add_share_down on a constructed CloudSyncMediaClient, with time         *)
(* passing between the calls and every answer of the transfer system.      *)
(***************************************************************************)
DefaultLogin == [kind |-> "ok", token |-> "t1"]

\* Answers to one add_share_down call, without the combinations that differ
\* only in an answer that is never requested.
CmsEnvs ==
    {e \in [login1 : LoginResponses, post1 : PostKinds,
            login2 : LoginResponses, post2 : PostKinds] :
        /\ (e.login1.kind # "http401" /\ e.post1 # "http401")
              => (e.login2 = DefaultLogin /\ e.post2 = "code200")
        /\ e.login2.kind # "ok" => e.post2 = "code200"}

Urls == {"https://115.com/s/a", ""}

EnsureValidTokenCall ==
    \E resp \in LoginResponses :
        LET c == cms_client[1]
            e == EnsureValidToken(c, now, resp)
        IN  /\ (e.trace = <<>>) => resp = DefaultLogin
            /\ cms_client' = <<e.c>>
            /\ last' = [NoObs EXCEPT !.op = "ensure_valid_token",
                                     !.transfer = e.trace, !.pre = <<c>>,
                                     !.exc = e.exc, !.at = now]
            /\ UNCHANGED <<raceVars, now, pluginVars>>

AddShareDownCall ==
    \E url \in Urls, env \in CmsEnvs :
        LET c == cms_client[1]
            r == AddShareDown(c, now, url, env)
        IN  /\ cms_client' = <<r.c>>
            /\ last' = [NoObs EXCEPT !.op = "add_share_down", !.url = url,
                                     !.transfer = r.trace, !.pre = <<c>>,
                                     !.exc = r.exc, !.ret = r.ret,
                                     !.at = now]
            /\ UNCHANGED <<raceVars, now, pluginVars>>

TickCms ==
    /\ \E t \in TokenTimes : t > now /\ now' = t
    /\ last' = [NoObs EXCEPT !.op = "tick"]
    /\ UNCHANGED <<raceVars, pluginVars, cms_client>>

InitCms ==
    \E tk \in Tokens : Initialised(CfgFull, [kind |-> "ok", token |-> tk])

NextCms == EnsureValidTokenCall \/ AddShareDownCall \/ TickCms

SpecCms == InitCms /\ [][NextCms]_vars

(***************************************************************************)
(* API client specification: calls of search and of the resource fetches,  *)
(* and the messages that lead to them, under every course the requests     *)
(* can take: statuses, faults, retries, the direct attempt, the body.      *)
(***************************************************************************)
MayRetry(raw) == raw.kind = "fault" \/ raw.status \in StatusForcelist

\* The answers to the transmissions of the proxied attempt: every answer
\* but the last one calls for a retry, and the run ends with the first
\* answer that does not or with the last retry.
ProxyRuns ==
    UNION {{run \in [1..n -> RawAnswers] :
                /\ \A i \in 1..(n - 1) : MayRetry(run[i])
                /\ n <= RetryTotal => ~MayRetry(run[n])} :
           n \in 1..(RetryTotal + 1)}

ReachesDirect(run) == Len(run) = RetryTotal + 1 /\ run[Len(run)].kind = "fault"

DirectRuns(run) ==
    IF ReachesDirect(run) THEN {<<raw>> : raw \in RawAnswers} ELSE {<<>>}

EndsWith200(run, direct) ==
    IF direct # <<>> THEN direct[1] = Response(200)
    ELSE run[Len(run)] = Response(200)

HttpEnv(run, direct, body, items) ==
    [proxy |-> run, direct |-> direct, body |-> body, items |-> items]

SearchBodies ==
    {[body |-> "json", items |-> <<>>],
     [body |-> "json", items |-> <<HitMatrix, HitNoId>>],
     [body |-> "bad_json", items |-> <<>>]}

SearchEnvs ==
    UNION {UNION {{HttpEnv(run, direct, b.body, b.items) :
                    b \in IF EndsWith200(run, direct) THEN SearchBodies
                          ELSE {[body |-> "json", items |-> <<>>]}} :
                  direct \in DirectRuns(run)} :
           run \in ProxyRuns}

FetchBodies == {"empty", "full", "bad_json"}

FetchEnvs ==
    UNION {UNION {{HttpEnv(run, direct, body, <<>>) :
                    body \in IF EndsWith200(run, direct) THEN FetchBodies
                             ELSE {"empty"}} :
                  direct \in DirectRuns(run)} :
           run \in ProxyRuns}

NoFetchEnv == HttpEnv(<<Response(200)>>, <<>>, "empty", <<>>)

\* A call of NullbrApiClient.search.
SearchCall ==
    \E env \in SearchEnvs :
        LET r == ClientSearch(env)
        IN  /\ last' = [NoObs EXCEPT !.op = "search", !.http = r.http,
                                     !.api_ret = <<[some |-> r.some,
                                                    items |-> r.items]>>]
            /\ UNCHANGED <<raceVars, now, pluginVars, cms_client>>

\* A call of get_movie_resources or get_tv_resources of the client the
\* plugin built with its API key.
GetResourcesCall ==
    \E media \in {"movie", "tv"}, env \in FetchEnvs :
        LET r == ClientGetResources(api_key, "115", env)
        IN  /\ ~Truthy(api_key) => env = NoFetchEnv
            /\ last' = [NoObs EXCEPT !.op = "get_resources",
                                     !.media = media, !.http = r.sent,
                                     !.api_ret = <<r.ret>>]
            /\ UNCHANGED <<raceVars, now, pluginVars, cms_client>>

FetchKindOf(ret, ty) ==
    CHOOSE kind \in FetchKinds : FetchResponse(kind, ty) = ret

\* A search message whose search runs through the client.
SearchMessage ==
    \E env \in SearchEnvs :
        Talk(SessionUser, TxtMatrixQ, NoneVal,
             [search |-> {ClientSearch(env)}, fetch |-> {"full"},
              walk |-> {"full"}, transfer |-> DispatchAnswers.transfer])

\* A '1.115' message whose fetch runs through the client.
ResourceMessage ==
    \E env \in FetchEnvs :
        /\ (~Truthy(api_key) \/ SessionUser \notin DOMAIN user_search_cache)
              => env = NoFetchEnv
        /\ Talk(SessionUser, Txt1Dot115, NoneVal,
                [search |-> {SearchResult(FALSE, <<>>, <<>>)},
                 fetch |-> {FetchKindOf(
                              ClientGetResources(api_key, "115", env).ret,
                              "115")},
                 walk |-> {"full"}, transfer |-> DispatchAnswers.transfer])

InitApi == \E config \in {CfgFull, CfgNoKey} : Initialised(config, LoginOk)

NextApi == SearchCall \/ GetResourcesCall

SpecApi == InitApi /\ [][NextApi]_vars

\* The conversation of a user whose searches and fetches run through the
\* client.
NextApiTalk == SearchMessage \/ ResourceMessage

SpecApiTalk == InitApi /\ [][NextApiTalk]_vars

(***************************************************************************)
(* Keyless specification: the conversation with a plugin that has no API   *)
(* key, and the calls of the client it built.                              *)
(***************************************************************************)
InitKeyless ==
    \E config \in {CfgNoKey, CfgNoKeyNoMagnet} : Initialised(config, LoginOk)

NextKeyless == Message \/ SearchCall \/ GetResourcesCall

SpecKeyless == InitKeyless /\ [][NextKeyless]_vars

(***************************************************************************)
(* Two-user specification: two users talk to the same plugin in any        *)
(* order; searches, fetches and transfers succeed or fail.                 *)
(***************************************************************************)
UsersTexts == {TxtMatrixQ, TxtDuneQ, Txt1, Txt2, Txt1Dot115}

UsersAnswers ==
    [search |-> {SearchResult(FALSE, <<>>, <<>>),
                 SearchResult(TRUE, <<HitMatrix, HitNoId>>, <<>>),
                 SearchResult(TRUE, HitsMany, <<>>)},
     fetch |-> {"none", "full", "many"},
     walk |-> {"none", "full"},
     transfer |-> {CmsEnv(LoginOk, "code200", LoginOk, "code200"),
                   CmsEnv(LoginOk, "exception", LoginOk, "code200")}]

InitUsers == Initialised(CfgFull, LoginOk)

UserMessage ==
    \E u \in Users, text \in UsersTexts : Talk(u, text, NoneVal, UsersAnswers)

NextUsers == UserMessage

SpecUsers == InitUsers /\ [][NextUsers]_vars

(***************************************************************************)
(* Reconfiguration specification: the host calls init_plugin again with a  *)
(* new configuration between the messages of a conversation; the caches    *)
(* built so far stay in the plugin object.                                 *)
(***************************************************************************)
CfgDisabled ==
    Config(FALSE, "app", "key", <<"magnet", "115", "ed2k", "video">>, Types,
           TRUE, TRUE)

CfgNoApp ==
    Config(TRUE, "", "key", <<"magnet", "115", "ed2k", "video">>, Types,
           TRUE, TRUE)

CfgNoKeyCms ==
    Config(TRUE, "app", NoneVal, <<"magnet", "115", "ed2k", "video">>, Types,
           TRUE, TRUE)

ReConfigs == {CfgFull, CfgDisabled, CfgNoApp, CfgNoKeyCms}

TxtEmpty == <<>>

TxtQ == <<"?">>

TxtSpaceQ == <<" ", "FWQ">>

Txt1Dot5 == <<"1", ".", "5">>

TxtSup2Dot115 == <<"SUP2", ".", "1", "1", "5">>

ReconfigTexts ==
    {TxtMatrixQ, Txt1, Txt1Dot115, TxtHi, TxtEmpty, TxtQ, TxtSpaceQ,
     Txt1Dot5, TxtSup2Dot115}

\* init_plugin(config) on the running plugin
InitPlugin ==
    \E config \in ReConfigs :
        LET p == PluginAfterInit(config, LoginOk, now)
        IN  /\ enabled' = p.enabled
            /\ client' = p.client
            /\ api_key' = p.api_key
            /\ resource_priority' = p.resource_priority
            /\ enable_types' = p.enable_types
            /\ cms_enabled' = p.cms_enabled
            /\ cms_client' = p.cms_client
            /\ last' = [NoObs EXCEPT !.op = "init_plugin",
                                     !.transfer = p.trace]
            /\ UNCHANGED <<raceVars, now, user_search_cache, user_resource_cache>>

ReconfigMessage ==
    \E text \in ReconfigTexts :
        Talk(SessionUser, text, NoneVal, DispatchAnswers)

InitReconfig == \E config \in ReConfigs : Initialised(config, LoginOk)

NextReconfig == ReconfigMessage \/ InitPlugin

SpecReconfig == InitReconfig /\ [][NextReconfig]_vars

(***************************************************************************)
(* Lifecycle specification: the host initialises, stops and initialises    *)
(* the plugin again between the messages of a conversation.                *)
(***************************************************************************)
\* What a stop finds in a cache for user u.
Found(name, cache, u) ==
    IF u \in DOMAIN cache
    THEN <<Read(name, "stop_service", TRUE, Age(cache, u, now),
                Size(cache, u, IF name = "search" THEN "results"
                               ELSE "resources"))>>
    ELSE <<>>

\* A stop that leaves the session caches as they are.
StopService_keepcaches ==
    /\ client' = FALSE
    /\ cms_client' = <<>>
    /\ enabled' = FALSE
    /\ last' = [NoObs EXCEPT
                  !.op = "stop_service",
                  !.reads = Found("search", user_search_cache, SessionUser)
                              \o Found("resource", user_resource_cache,
                                       SessionUser)]
    /\ UNCHANGED <<raceVars, now, api_key, resource_priority, enable_types,
                   cms_enabled, user_search_cache, user_resource_cache>>

\* stop_service()
StopService ==
    /\ client' = FALSE
    /\ cms_client' = <<>>
    /\ user_search_cache' = <<>>
    /\ user_resource_cache' = <<>>
    /\ enabled' = FALSE
    /\ last' = [NoObs EXCEPT
                  !.op = "stop_service",
                  !.reads = Found("search", user_search_cache, SessionUser)
                              \o Found("resource", user_resource_cache,
                                       SessionUser)]
    /\ UNCHANGED <<raceVars, now, api_key, resource_priority, enable_types,
                   cms_enabled>>

InitLifecycle == \E config \in ReConfigs : Initialised(config, LoginOk)

NextLifecycle == ReconfigMessage \/ InitPlugin \/ StopService

SpecLifecycle == InitLifecycle /\ [][NextLifecycle]_vars

(***************************************************************************)
(* Interleaving specification: the host runs talk() for several messages   *)
(* at once, each on a worker thread of its own, over the one plugin        *)
(* object.  A step is what a thread does around one access of a shared     *)
(* cache: one read of a user's entry into the local `cache`, or one store  *)
(* of a finished entry; the threads are switched between the steps.        *)
(***************************************************************************)
Txt1DotMagnet == <<"1", ".", "m", "a", "g", "n", "e", "t">>

RaceTexts == {TxtMatrixQ, Txt1, Txt2, Txt1Dot115, Txt1DotMagnet}

RaceTimes == {0, 2}

\* The messages in flight: every text from u1, a search from u2.
RaceMessages ==
    {[user |-> "u1", text |-> tx] : tx \in RaceTexts}
      \cup {[user |-> "u2", text |-> tx] : tx \in {TxtMatrixQ}}

RaceHits == <<HitMatrix, HitNoId>>

RaceEnv == CmsEnv(LoginOk, "code200", LoginOk, "code200")

\* The entry the local variable `cache` of an invocation refers to.
HeldEntry(h) == h.cache[1]

\* One step of worker w: its locals become h, its observation o.
RaceStep(w, h, o, step) ==
    /\ handlers' = [handlers EXCEPT ![w] = h]
    /\ last' = [o EXCEPT !.op = step, !.worker = w,
                         !.user = handlers[w].user,
                         !.number = handlers[w].number,
                         !.resource_type = handlers[w].resource_type]

\* The stores of a step that leaves the caches as sc and rc: each changed
\* entry is one assignment of a dict built beforehand.
RaceStore(u, sc, rc) ==
    /\ user_search_cache' = sc
    /\ user_resource_cache' = rc
    /\ written' =
        [search |-> IF sc # user_search_cache
                    THEN Put(written.search, u, sc[u]) ELSE written.search,
         resource |-> IF rc # user_resource_cache
                      THEN Put(written.resource, u, rc[u])
                      ELSE written.resource]

\* talk() up to the choice of the branch
RaceReceive(w) ==
    /\ handlers[w].pc = "idle"
    /\ \E m \in RaceMessages :
        LET u == m.user
            text == m.text
            cls == Classify(text)
        IN  /\ Processed(text, NoneVal)
            /\ handlers' =
                [handlers EXCEPT ![w] =
                    [Idle EXCEPT
                        !.pc = CASE cls.kind = "search" -> "search"
                                 [] cls.kind = "resource" -> "get_resources"
                                 [] cls.kind = "number" -> "number"
                                 [] OTHER -> "idle",
                        !.user = u, !.number = cls.number,
                        !.resource_type = cls.resource_type,
                        !.keyword = cls.keyword]]
            /\ last' = [NoObs EXCEPT !.op = "receive", !.worker = w,
                                     !.user = u, !.text = text]
    /\ UNCHANGED <<now, pluginVars, cms_client, written>>

\* search_and_reply: the API call and the store of the entry
RaceSearch(w) ==
    LET h == handlers[w]
    IN  /\ h.pc = "search"
        /\ \E result \in {SearchResult(FALSE, <<>>, <<>>),
                          SearchResult(TRUE, RaceHits, <<>>)} :
            LET r == SearchAndReply(user_search_cache, user_resource_cache,
                                    cms_client, h.user, now, h.keyword, result)
            IN  /\ RaceStore(h.user, r.sc, r.rc)
                /\ RaceStep(w, Idle, r.obs, "search")
        /\ UNCHANGED <<now, enabled, client, api_key, resource_priority,
                       enable_types, cms_enabled, cms_client>>

\* The all-digit branch of talk(): the dispatcher reads the user's resource
\* entry into its own `cache` and tests it.
RaceDispatch(w) ==
    LET h == handlers[w]
        rc == user_resource_cache
    IN  /\ h.pc = "number"
        /\ IF DispatchNumber(rc, h.user, now, h.number) = "transfer"
           THEN RaceStep(w, [h EXCEPT !.pc = "transfer",
                                      !.checked = <<rc[h.user]>>],
                         [NoObs EXCEPT !.reads = TalkReads(rc, h.user, now),
                                       !.checked = <<rc[h.user]>>],
                         "dispatch")
           ELSE RaceStep(w, [h EXCEPT !.pc = "selection"],
                         [NoObs EXCEPT !.reads = TalkReads(rc, h.user, now)],
                         "dispatch")
        /\ UNCHANGED <<now, pluginVars, cms_client, written>>

\* handle_resource_transfer up to `resources = cache['resources']` and the
\* range test: the handler reads the entry again, into its own `cache`.
RaceTransferRead(w) ==
    LET h == handlers[w]
        rc == user_resource_cache
        u == h.user
        o0 == [NoObs EXCEPT !.handler = "transfer", !.checked = h.checked]
    IN  /\ h.pc = "transfer"
        /\ IF ~cms_enabled \/ cms_client = <<>>
           THEN RaceStep(w, Idle,
                    [o0 EXCEPT !.replies =
                        <<Reply("cms_disabled", 0, "", <<>>)>>],
                    "transfer_read")
           ELSE IF HandlerCacheExpired(rc, u, now)
           THEN RaceStep(w, Idle,
                    [o0 EXCEPT !.replies =
                        <<Reply("resource_expired", 0, "", <<>>)>>],
                    "transfer_read")
           ELSE IF InvalidIndex(h.number, Len(rc[u].resources))
           THEN RaceStep(w, Idle,
                    [o0 EXCEPT
                        !.entry = <<rc[u]>>,
                        !.replies =
                            <<Reply("invalid_resource", Len(rc[u].resources),
                                    "", <<>>)>>],
                    "transfer_read")
           ELSE RaceStep(w, [h EXCEPT !.pc = "transfer_use",
                                      !.cache = <<rc[u]>>],
                         [o0 EXCEPT !.entry = <<rc[u]>>], "transfer_read")
        /\ UNCHANGED <<now, pluginVars, cms_client, written>>

\* handle_resource_transfer from `selected_resource = resources[...]` on
RaceTransferUse(w) ==
    LET h == handlers[w]
        selected_resource == PyItem(HeldEntry(h).resources, h.number - 1)
        r == AddShareDown(cms_client[1], now, selected_resource.url, RaceEnv)
    IN  /\ h.pc = "transfer_use"
        /\ cms_client' = <<r.c>>
        /\ RaceStep(w, Idle,
                [NoObs EXCEPT !.handler = "transfer",
                              !.checked = h.checked,
                              !.entry = h.cache,
                              !.url = selected_resource.url,
                              !.transfer = r.trace],
                "transfer_use")
        /\ UNCHANGED <<now, pluginVars, written>>

\* handle_resource_selection and handle_get_resources up to the range test
RaceSearchRead(w) ==
    LET h == handlers[w]
        sc == user_search_cache
        u == h.user
        o0 == [NoObs EXCEPT !.handler = h.pc]
    IN  /\ h.pc \in {"selection", "get_resources"}
        /\ IF h.pc = "get_resources" /\ ~Truthy(api_key)
           THEN RaceStep(w, Idle,
                    [o0 EXCEPT !.replies =
                        <<Reply("config_error", 0, "", <<>>)>>],
                    "search_read")
           ELSE IF HandlerCacheExpired(sc, u, now)
           THEN RaceStep(w, Idle,
                    [o0 EXCEPT !.replies =
                        <<Reply("expired", 0, "", <<>>)>>],
                    "search_read")
           ELSE IF InvalidIndex(h.number, Len(sc[u].results))
           THEN RaceStep(w, Idle,
                    [o0 EXCEPT
                        !.entry = <<sc[u]>>,
                        !.replies =
                            <<Reply("invalid", Len(sc[u].results), "",
                                    <<>>)>>],
                    "search_read")
           ELSE RaceStep(w, [h EXCEPT !.pc = h.pc \o "_use",
                                      !.cache = <<sc[u]>>],
                         [o0 EXCEPT !.entry = <<sc[u]>>], "search_read")
        /\ UNCHANGED <<now, pluginVars, cms_client, written>>

\* handle_get_resources from `selected = results[number - 1]` on
GetResourcesOf(o, sc, rc, cms, u, t, selected, resource_type, kind) ==
    IF selected.tmdbid = 0
    THEN Result(sc, rc, cms,
            [o EXCEPT !.replies =
                <<Reply("missing_tmdbid", 0, "", <<>>)>>])
    ELSE LET called == FetchCalled(selected.media_type)
             resources == IF called THEN ClientFetch(kind, resource_type)
                          ELSE FetchResponse("none", resource_type)
             o3 == [o EXCEPT
                      !.replies = <<Reply("fetching", 0, selected.title,
                                          <<>>)>>,
                      !.fetches = IF called
                                  THEN <<[type |-> resource_type,
                                          kind |-> kind]>>
                                  ELSE <<>>]
         IN  IF ~(resources.some /\ resources.truthy)
             THEN Result(sc, rc, cms,
                    Fallback([o3 EXCEPT !.replies =
                                Append(@, Reply("fallback_notice", 0,
                                                selected.title, <<>>))],
                             "title", selected.title, <<>>))
             ELSE FormatAndSendResources(o3, sc, rc, cms, u, t, resources,
                                         resource_type, selected.title)

\* The rest of handle_resource_selection and of handle_get_resources: the
\* hit taken from the entry held, the fetches and the store of the records.
RaceSearchUse(w) ==
    LET h == handlers[w]
        sc == user_search_cache
        rc == user_resource_cache
        u == h.user
        selected == PyItem(HeldEntry(h).results, h.number - 1)
        o0 == [NoObs EXCEPT !.handler = h.pc, !.entry = h.cache,
                            !.selected = <<selected>>]
    IN  /\ h.pc \in {"selection_use", "get_resources_use"}
        /\ \E kind \in {"none", "full"} :
            LET r == IF h.pc = "get_resources_use"
                     THEN GetResourcesOf(o0, sc, rc, cms_client, u, now,
                                         selected, h.resource_type, kind)
                     ELSE IF ~Truthy(api_key)
                     THEN Result(sc, rc, cms_client,
                            [o0 EXCEPT !.replies =
                                <<Reply("detail", selected.tmdbid,
                                        selected.title,
                                        DetailOptions(selected))>>])
                     ELSE GetResourcesByPriority(o0, sc, rc, cms_client, u,
                                                 now, selected,
                                                 [k \in 1..4 |-> kind])
            IN  /\ RaceStore(u, r.sc, r.rc)
                /\ RaceStep(w, Idle, r.obs, "search_use")
        /\ UNCHANGED <<now, enabled, client, api_key, resource_priority,
                       enable_types, cms_enabled, cms_client>>

TickRace ==
    /\ \E t \in RaceTimes : t > now /\ now' = t
    /\ last' = [NoObs EXCEPT !.op = "tick"]
    /\ UNCHANGED <<raceVars, pluginVars, cms_client>>

InitRace == Initialised(CfgFull, LoginOk)

NextRace ==
    \/ \E w \in Workers :
        \/ RaceReceive(w)
        \/ RaceSearch(w)
        \/ RaceDispatch(w)
        \/ RaceTransferRead(w)
        \/ RaceTransferUse(w)
        \/ RaceSearchRead(w)
        \/ RaceSearchUse(w)
    \/ TickRace

SpecRace == InitRace /\ [][NextRace]_vars

(***************************************************************************)
(* Transfer-client interleaving specification: add_share_down runs on two  *)
(* threads over the one CloudSyncMediaClient.  A step is a request or one  *)
(* assignment to an attribute of the client.                               *)
(***************************************************************************)
CmsRaceTimes == {0, 82800}

CmsRaceTokens == {"t1", "t2"}

\* One step of worker w in add_share_down: its locals become h, the client
\* becomes c.
CmsStep(w, h, c, step) ==
    /\ handlers' = [handlers EXCEPT ![w] = h]
    /\ cms_client' = <<c>>
    /\ last' = [NoObs EXCEPT !.op = step, !.worker = w,
                             !.pre = cms_client, !.at = now]
    /\ UNCHANGED <<now, pluginVars, written>>

\* add_share_down(url) is entered with a link.
CmsEnter(w) ==
    /\ handlers[w].pc = "idle"
    /\ CmsStep(w, [Idle EXCEPT !.pc = "check"], cms_client[1], "enter")

\* _ensure_valid_token: `current_time = time.time()` and the staleness test
CmsCheck(w) ==
    LET h == handlers[w]
    IN  /\ h.pc = "check"
        /\ CmsStep(w, [h EXCEPT !.pc = IF NeedsLogin(cms_client[1], now)
                                       THEN "login" ELSE "post",
                                !.current_time = now],
                   cms_client[1], "check")

\* `login_data = self._login()`, answered with a token
CmsLogin(w) ==
    LET h == handlers[w]
    IN  /\ h.pc = "login"
        /\ \E tk \in CmsRaceTokens :
            CmsStep(w, [h EXCEPT !.pc = "set_token", !.login_data = tk],
                    cms_client[1], "login")

\* `self.token = login_data['token']`
CmsSetToken(w) ==
    LET h == handlers[w]
    IN  /\ h.pc = "set_token"
        /\ CmsStep(w, [h EXCEPT !.pc = "set_expiry"],
                   [cms_client[1] EXCEPT !.token = h.login_data],
                   "set_token")

\* `self.token_expiry = current_time + 86400`
CmsSetExpiry(w) ==
    LET h == handlers[w]
    IN  /\ h.pc = "set_expiry"
        /\ CmsStep(w, [h EXCEPT !.pc = "set_header"],
                   [cms_client[1] EXCEPT
                        !.token_expiry = h.current_time + TokenLifetime],
                   "set_expiry")

\* `self.session.headers.update({'Authorization': f'Bearer {self.token}'})`
CmsSetHeader(w) ==
    LET h == handlers[w]
    IN  /\ h.pc = "set_header"
        /\ CmsStep(w, [h EXCEPT !.pc = "post"],
                   [cms_client[1] EXCEPT !.auth = cms_client[1].token],
                   "set_header")

\* session.post(...): accepted, or answered 401; a 401 of the first POST
\* leads to the handler, a 401 of the second one ends the call.
CmsPost(w) ==
    LET h == handlers[w]
    IN  /\ h.pc = "post"
        /\ \E resp \in {"code200", "http401"} :
            CmsStep(w,
                    IF resp = "http401" /\ ~h.retried
                    THEN [h EXCEPT !.pc = "discard"] ELSE Idle,
                    cms_client[1], "post")

\* `self.token = None` of the 401 handler
CmsDiscard(w) ==
    LET h == handlers[w]
    IN  /\ h.pc = "discard"
        /\ CmsStep(w, [h EXCEPT !.pc = "check", !.retried = TRUE],
                   [cms_client[1] EXCEPT !.token = NoneVal], "discard")

TickCmsRace ==
    /\ \E t \in CmsRaceTimes : t > now /\ now' = t
    /\ last' = [NoObs EXCEPT !.op = "tick"]
    /\ UNCHANGED <<raceVars, pluginVars, cms_client>>

InitCmsRace == Initialised(CfgFull, LoginOk)

NextCmsRace ==
    \/ \E w \in Workers :
        \/ CmsEnter(w)
        \/ CmsCheck(w)
        \/ CmsLogin(w)
        \/ CmsSetToken(w)
        \/ CmsSetExpiry(w)
        \/ CmsSetHeader(w)
        \/ CmsPost(w)
        \/ CmsDiscard(w)
    \/ TickCmsRace

SpecCmsRace == InitCmsRace /\ [][NextCmsRace]_vars

(***************************************************************************)
(* Host search specification: the search operation that the plugin         *)
(* nullbr_search offers to the host, over its own NullbrApiClient.         *)
(***************************************************************************)
\* The parameters of NullbrApiClient.search(self, query, page=1).
ClientSearchParameters == {"query", "page"}

\* The keyword arguments of the call `self._client.search(query=...,
\* media_type=..., page=...)` in NullbrSearch.search.
SearchCallKeywords == {"query", "media_type", "page"}

\* A Python call with a keyword the function does not have raises
\* TypeError before the function body runs.
CallRaisesTypeError(keywords, parameters) == ~(keywords \subseteq parameters)

\* _get_resources(tmdbid, media_type): the 115 records of the hit, or [].
HostGetResources(key, tmdbid, kind) ==
    IF ~Truthy(key) \/ tmdbid = 0 THEN <<>>
    ELSE LET resources == FetchResponse(kind, "115")
         IN  IF ~(resources.some /\ resources.truthy) \/ resources.list = <<>>
             THEN <<>>
             ELSE [i \in 1..Len(resources.list) |->
                    [url |-> Get(resources.list[i].share_link, ""),
                     size |-> Get(resources.list[i].size, "")]]

HostSearchResult(item, media_type, resources) ==
    [title |-> item.title,
     type |-> IF media_type # NoneVal THEN media_type
              ELSE IF item.media_type = "movie" THEN "movie" ELSE "tv",
     tmdbid |-> item.tmdbid,
     url |-> IF resources # <<>> THEN resources[1].url ELSE ""]

RECURSIVE HostResults(_, _, _)
HostResults(items, media_type, kind) ==
    IF items = <<>> THEN <<>>
    ELSE IF "115" \notin items[1].flags
         THEN HostResults(Tail(items), media_type, kind)
         ELSE <<HostSearchResult(items[1], media_type,
                    HostGetResources(api_key, items[1].tmdbid, kind))>>
                \o HostResults(Tail(items), media_type, kind)

\* NullbrSearch.search(keyword, media_type, season, page) of nullbr_search.
\* result is what the service answers to a search for the keyword, kind
\* what it answers to the fetches.  ret is <<>> for None and <<list>> for a
\* list; sent tells whether the search request was made.
HostSearch(media_type, result, kind) ==
    IF ~enabled \/ ~client
    THEN [ret |-> <<>>, exc |-> NoneVal, sent |-> FALSE]
    ELSE IF CallRaisesTypeError(SearchCallKeywords, ClientSearchParameters)
    THEN [ret |-> <<>>, exc |-> "TypeError", sent |-> FALSE]
    ELSE IF ~result.some \/ result.items = <<>>
    THEN [ret |-> <<>>, exc |-> NoneVal, sent |-> TRUE]
    ELSE IF \E i \in 1..Len(result.items) :
                /\ "115" \in result.items[i].flags
                /\ HostGetResources(api_key, result.items[i].tmdbid, kind)
                       = <<>>
    \* resolution=resources[0].get(...) has no `if resources` guard.
    THEN [ret |-> <<>>, exc |-> "IndexError", sent |-> TRUE]
    ELSE [ret |-> <<HostResults(result.items, media_type, kind)>>,
          exc |-> NoneVal, sent |-> TRUE]

\* The host calls search.
HostSearchCall ==
    \E keyword \in {<<"M", "a", "t", "r", "i", "x">>, <<"D", "u", "n", "e">>},
       media_type \in {"movie", "tv", NoneVal},
       result \in SearchResponses, kind \in {"none", "full"} :
        LET r == HostSearch(media_type, result, kind)
        IN  /\ last' = [NoObs EXCEPT
                          !.op = "host_search", !.keyword = keyword,
                          !.media = media_type,
                          !.api_items = result.items,
                          !.api_ret = <<[some |-> result.some,
                                         items |-> result.items]>>,
                          !.fetches = <<[type |-> "115", kind |-> kind]>>,
                          !.exc = r.exc,
                          !.events = r.ret,
                          !.http = IF r.sent THEN <<Sent("proxy",
                                                        Response(200))>>
                                   ELSE <<>>]
            /\ UNCHANGED <<raceVars, now, pluginVars, cms_client>>

InitHostSearch == \E config \in ReConfigs : Initialised(config, LoginOk)

NextHostSearch == HostSearchCall \/ InitPlugin

SpecHostSearch == InitHostSearch /\ [][NextHostSearch]_vars

(***************************************************************************)
(* Priority specification: init_plugin with every choice of the values     *)
(* priority_1 .. priority_4, each a resource type or absent.               *)
(***************************************************************************)
PriorityConfigs ==
    {Config(TRUE, "app", "key", prios, Types, FALSE, FALSE) :
        prios \in [1..4 -> Types \cup {NoneVal}]}

\* init_plugin(config) with a configuration of PriorityConfigs
ConfigurePriorities ==
    \E config \in PriorityConfigs :
        LET p == PluginAfterInit(config, LoginOk, now)
        IN  /\ enabled' = p.enabled
            /\ client' = p.client
            /\ api_key' = p.api_key
            /\ resource_priority' = p.resource_priority
            /\ enable_types' = p.enable_types
            /\ cms_enabled' = p.cms_enabled
            /\ cms_client' = p.cms_client
            /\ last' = [NoObs EXCEPT !.op = "init_plugin",
                                     !.pre = <<config.priorities>>]
            /\ UNCHANGED <<raceVars, now, user_search_cache,
                           user_resource_cache>>

InitPriority == Initialised(CfgFull, LoginOk)

NextPriority == ConfigurePriorities

SpecPriority == InitPriority /\ [][NextPriority]_vars

(***************************************************************************)
(* Properties                                                              *)
(***************************************************************************)
KindsOf(replies) == [i \in 1..Len(replies) |-> replies[i].kind]

ReadsOf(cache, reader) ==
    {r \in Range(last.reads) : r.cache = cache /\ r.reader = reader}

\* What using the entry that was read shows of a handled message: the
\* handler works on the list it read, the dispatcher tests the number
\* against it.
UsesEntry(r) ==
    IF r.reader = "talk"
    THEN last.number \in 1..r.size => last.handler = "transfer"
    ELSE IF r.cache = "search"
    THEN IF last.number \in 1..r.size
         THEN Len(last.selected) = 1
         ELSE last.replies = <<Reply("invalid", r.size, "", <<>>)>>
    ELSE IF last.number \in 1..r.size
         THEN last.url # NoneVal
         ELSE KindsOf(last.replies) = <<"invalid_resource">>

\* What treating the entry as absent shows: the handler answers that the
\* session has expired and does nothing else, the dispatcher does not send
\* the number to the transfer.
TreatsAsAbsent(r) ==
    IF r.reader = "talk"
    THEN last.handler = "selection" /\ last.transfer = <<>>
         /\ last.url = NoneVal
    ELSE /\ KindsOf(last.replies) =
                <<IF r.cache = "search" THEN "expired" ELSE "resource_expired">>
         /\ last.fetches = <<>> /\ last.selected = <<>>
         /\ last.transfer = <<>> /\ last.fallback = <<>>

\* C1: a cache entry that is read 3599 seconds (or less) after its
\* timestamp is used, one that is read 3601 seconds (or more) after it is
\* treated as absent: the handler replies that the session has expired, the
\* dispatcher does not hand the number to the transfer.
C1_EntryExpiresAfterOneHour ==
    last.op = "talk" =>
        \A i \in 1..Len(last.reads) :
            LET r == last.reads[i]
            IN  r.present =>
                    /\ r.age <= 3599 => UsesEntry(r)
                    /\ r.age >= 3601 => TreatsAsAbsent(r)

\* One message that finds the resource entry 3601 seconds old and the
\* search entry 3599 seconds old.
C1_Witness ==
    /\ last.op = "talk"
    /\ \E r \in ReadsOf("resource", "talk") : r.age = 3601
    /\ \E r \in ReadsOf("search", "selection") : r.age = 3599
    /\ Len(last.selected) = 1

\* The user and text of the message handled in a step, and the number it
\* spells.
IsNumberMessage(o) ==
    o.op = "talk" /\ o.source # "nullbr_fallback" /\ IsDigit(CleanText(o.text))

LiveValidIndex(u, n) ==
    /\ u \in DOMAIN user_resource_cache
    /\ now - user_resource_cache[u].timestamp < 3600
    /\ n \in 1..Len(user_resource_cache[u].resources)

\* C2 as stated: a message of digits is a transfer request exactly when the
\* user has a live resource entry and the number is a valid index of it,
\* and a title selection otherwise.
C2_Original ==
    [][IsNumberMessage(last') =>
         LET n == ToInt(CleanText(last'.text))
         IN  IF LiveValidIndex(last'.user, n)
             THEN last'.handler = "transfer"
             ELSE last'.handler = "selection"]_vars

\* C2: a message of digits is a transfer request exactly when the transfer
\* system is enabled and has a client, the user has a live resource entry
\* and the number is a valid index of it; it is a title selection otherwise.
C2_TransferNeedsClient ==
    [][IsNumberMessage(last') =>
         LET n == ToInt(CleanText(last'.text))
         IN  IF CmsReady /\ LiveValidIndex(last'.user, n)
             THEN last'.handler = "transfer"
             ELSE last'.handler = "selection"]_vars

\* A number sent 3599 seconds after the resource list went to the transfer.
C2_Witness ==
    /\ last.op = "talk" /\ last.handler = "transfer"
    /\ \E r \in ReadsOf("resource", "talk") :
            r.age = 3599 /\ last.number \in 1..r.size
    /\ last.url # NoneVal

\* The number a digit string of the dispatch texts spells.
NumberSpelled(num) ==
    CASE num = <<"1">> -> 1
      [] num = <<"0">> -> 0
      [] num = <<"1", "2">> -> 12
      [] num = <<"0", "2">> -> 2

QuestionTrails == {<<>>, <<"?">>, <<"FWQ">>, <<"?", "FWQ">>, <<"FWQ", "?">>}

\* C3: a message '<digits>.<type>' (with or without trailing question
\* marks) is a resource request for that number and type, not a search; a
\* message of digits is a numeric selection, not a search, with or without
\* a trailing question mark; a message starts a search only when it is of
\* neither form, and every message starts at most one handler.
C3_FirstMatchWins ==
    last.op = "talk" =>
        /\ \A num \in NumberChars, q \in QuestionTrails :
              /\ \A ty \in Types :
                    last.text = num \o <<".">> \o TypeChars[ty] \o q =>
                        /\ last.handler = "get_resources"
                        /\ last.number = NumberSpelled(num)
                        /\ last.resource_type = ty
                        /\ last.api_items = <<>> /\ last.keyword = <<>>
              /\ last.text = num \o q =>
                        /\ last.handler \in {"selection", "transfer"}
                        /\ last.number = NumberSpelled(num)
                        /\ last.api_items = <<>> /\ last.keyword = <<>>
        /\ last.handler = "search" =>
              /\ ~IsDigit(CleanText(last.text))
              /\ ~MatchesResourceRequest(CleanText(last.text))
              /\ last.selected = <<>> /\ last.fetches = <<>>
              /\ last.transfer = <<>>
        /\ last.handler # "transfer" => last.transfer = <<>> /\ last.url = NoneVal
        /\ last.handler = "transfer" => last.selected = <<>> /\ last.fetches = <<>>

\* '02.magnet?' handled as the resource request 2.magnet.
C3_Witness ==
    /\ last.op = "talk"
    /\ last.text = <<"0", "2", ".", "m", "a", "g", "n", "e", "t", "?">>
    /\ last.handler = "get_resources"
    /\ last.number = 2 /\ last.resource_type = "magnet"

\* The priority walk was entered for the hit the user selected.
WalkEntered(o) ==
    /\ o.op = "talk"
    /\ "get_resources_by_priority" \in Range(o.entered)
    /\ Len(o.selected) = 1

\* The configured priority order restricted to the types the hit has and
\* the configuration enables.
Candidates(hit) ==
    SelectSeq(resource_priority,
              LAMBDA ty : ty \in hit.flags /\ ty \in enable_types)

FetchedTypes(o) == [i \in 1..Len(o.fetches) |-> o.fetches[i].type]

IsPrefix(a, b) == Len(a) <= Len(b) /\ a = SubSeq(b, 1, Len(a))

\* C4: the types the priority walk fetches are, in order, a prefix of the
\* priority order restricted to the types the hit has and the configuration
\* enables, and nothing is fetched after the first fetch that returned a
\* non-empty list.
C4_FetchesFollowPriority ==
    WalkEntered(last) =>
        /\ IsPrefix(FetchedTypes(last), Candidates(last.selected[1]))
        /\ \A i \in 1..(Len(last.fetches) - 1) : last.fetches[i].kind # "full"

\* magnet is tried first and returns an empty list, 115 is tried next, and
\* the ed2k the hit lacks is never fetched.
C4_Witness ==
    /\ WalkEntered(last)
    /\ resource_priority = <<"magnet", "115", "ed2k", "video">>
    /\ last.selected[1].flags = {"115", "magnet", "video"}
    /\ last.fetches = <<[type |-> "magnet", kind |-> "empty"],
                        [type |-> "115", kind |-> "full"]>>

\* The walk resolved to the type ty: the list replied and the resource
\* entry written carry ty.
ResolvedTo(ty) ==
    /\ \E i \in 1..Len(last.replies) :
            last.replies[i].kind = "resources" /\ last.replies[i].s = ty
    /\ last.user \in DOMAIN user_resource_cache
    /\ user_resource_cache[last.user].resource_type = ty
    /\ user_resource_cache[last.user].timestamp = now
    /\ user_resource_cache[last.user].title = last.selected[1].title

\* ty is the earliest candidate whose fetch returned a non-empty list.
EarliestYielding(ty) ==
    LET F == Candidates(last.selected[1])
    IN  \E k \in 1..Len(F) :
            /\ F[k] = ty
            /\ Len(last.fetches) >= k
            /\ last.fetches[k] = [type |-> ty, kind |-> "full"]
            /\ \A j \in 1..(k - 1) :
                    last.fetches[j].type = F[j] /\ last.fetches[j].kind # "full"

\* No candidate yields a list: each was fetched and returned nothing, or the
\* hit is of a media type that has no resource endpoint.
NoneYields ==
    LET F == Candidates(last.selected[1])
    IN  \/ last.selected[1].media_type \notin {"movie", "tv"}
        \/ /\ FetchedTypes(last) = F
           /\ \A k \in 1..Len(F) : last.fetches[k].kind # "full"

SignalsExhaustion ==
    /\ Len(last.fallback) = 1
    /\ "fallback_notice" \in Range(KindsOf(last.replies))

WalkOutcome ==
    /\ \A ty \in Types : ResolvedTo(ty) <=> EarliestYielding(ty)
    /\ SignalsExhaustion <=> NoneYields
    /\ SignalsExhaustion \/ \E ty \in Types : ResolvedTo(ty)

\* C5 as stated: the walk resolves to T exactly when T is the earliest
\* available, enabled type whose fetch is non-empty, and signals exhaustion
\* exactly when there is no such type.
C5_Original == WalkEntered(last) => WalkOutcome

\* C5: for a hit that carries a tmdbId, the walk resolves to T exactly when
\* T is the earliest available, enabled type whose fetch is non-empty, and
\* signals exhaustion exactly when there is no such type.
C5_ResolvesToEarliest ==
    WalkEntered(last) /\ last.selected[1].tmdbid # 0 => WalkOutcome

\* The walk resolved to ed2k after magnet failed.
C5_Witness ==
    /\ WalkEntered(last)
    /\ last.selected[1].tmdbid = 70523
    /\ ResolvedTo("ed2k")
    /\ Len(last.fetches) = 2 /\ last.fetches[1].kind = "none"

NoFetchYields(o) == \A i \in 1..Len(o.fetches) : o.fetches[i].kind # "full"

ExhaustionHandled(o) ==
    /\ o.fallback = <<[kind |-> "title", title |-> o.selected[1].title,
                       keyword |-> <<>>]>>
    /\ TruthyStr(o.selected[1].title)
    /\ KindsOf(o.replies) = <<"fetching", "fallback_notice", "fallback_advice">>

\* C6 as stated: when no type yields a result, the walk starts the fallback
\* search with the title of the hit and replies with the fallback notice,
\* not with an error, and writes no resource entry.
C6_Original ==
    [][WalkEntered(last') /\ NoFetchYields(last') =>
         /\ ExhaustionHandled(last')
         /\ user_resource_cache' = user_resource_cache]_vars

\* C6: for a hit that carries a tmdbId, when no type yields a result, the
\* walk starts the fallback search with the title of the hit and replies
\* with the fallback notice, not with an error, and writes no resource
\* entry; this holds also when every fetch fails.
C6_ExhaustionFallsBack ==
    [][/\ WalkEntered(last')
       /\ last'.selected[1].tmdbid # 0
       /\ NoFetchYields(last')
       => /\ ExhaustionHandled(last')
          /\ user_resource_cache' = user_resource_cache]_vars

\* Every fetch of a walk over three candidates failed and the fallback ran
\* while an earlier resource entry stayed in the cache.
C6_Witness ==
    /\ WalkEntered(last)
    /\ Len(last.fetches) = 3
    /\ \A i \in 1..3 : last.fetches[i].kind = "none"
    /\ Len(last.fallback) = 1
    /\ last.user \in DOMAIN user_resource_cache

Logins(trace) == {i \in 1..Len(trace) : trace[i].ev = "login"}

Posts(trace) == {i \in 1..Len(trace) : trace[i].ev = "post"}

\* C7: in one add_share_down call, a first enqueue POST answered with HTTP
\* 401 is followed by exactly one login (the token being discarded) and,
\* when that login succeeds, by exactly one more POST; a second 401 ends
\* the call with that error; no call sends more than 2 enqueue POSTs.
C7_RetryOnceAfter401 ==
    last.op = "add_share_down" =>
        LET tr == last.transfer
        IN  /\ Cardinality(Posts(tr)) <= 2
            /\ \A i \in Posts(tr) :
                  (\A j \in Posts(tr) : i <= j) /\ tr[i].resp = "http401" =>
                    /\ Cardinality({j \in Logins(tr) : j > i}) = 1
                    /\ Len(tr) > i /\ tr[i + 1].ev = "login"
                    /\ tr[i + 1].resp = "ok" =>
                          /\ Len(tr) = i + 2 /\ tr[i + 2].ev = "post"
                          /\ tr[i + 2].resp = "http401" =>
                                last.exc = "http401" /\ last.ret = NoneVal

\* The moment of the refresh that gave the client its token, as its expiry
\* tells it.
RefreshedAt(c) == c.token_expiry - 86400

\* The logins of the token check a call starts with.
LoginsOfCheck(o) ==
    IF o.op = "ensure_valid_token" THEN Logins(o.transfer)
    ELSE Logins(o.transfer) \cap {1}

\* C8: the token check performs a login exactly when the client has no
\* token or the time has reached the expiry less 3600 seconds, and a login
\* that succeeds sets the expiry 86400 seconds ahead; so a check less than
\* 82800 seconds after a refresh performs no login and leaves the client
\* as it is, and a check 82800 seconds or more after it performs one login.
C8_RefreshOneHourEarly ==
    (last.op = "ensure_valid_token"
        \/ (last.op = "add_share_down" /\ last.url # "")) =>
        LET c == last.pre[1]
            stale == c.token \in {NoneVal, ""}
                        \/ last.at >= c.token_expiry - 3600
            n == Cardinality(LoginsOfCheck(last))
        IN  /\ n = (IF stale THEN 1 ELSE 0)
            /\ last.op = "ensure_valid_token" =>
                  /\ ~stale => cms_client = <<c>>
                  /\ stale /\ last.transfer[1].resp = "ok" =>
                        /\ cms_client[1].token_expiry = last.at + 86400
                        /\ cms_client[1].auth = cms_client[1].token
                  /\ stale /\ last.transfer[1].resp # "ok" =>
                        cms_client = <<c>> /\ last.exc # NoneVal
            /\ Truthy(c.token) =>
                  /\ last.at < RefreshedAt(c) + 82800 => n = 0
                  /\ last.at >= RefreshedAt(c) + 82800 => n = 1

\* A token check exactly 82800 seconds after the refresh logs in again.
C8_Witness ==
    /\ last.op = "ensure_valid_token"
    /\ Truthy(last.pre[1].token)
    /\ last.at = RefreshedAt(last.pre[1]) + 82800
    /\ Len(last.transfer) = 1 /\ last.transfer[1].resp = "ok"
    /\ cms_client[1].token_expiry = last.at + 86400

\* The keyword a search text asks for.
KeywordOf(text) ==
    CASE text = <<"M", "a", "t", "r", "i", "x", "?">> ->
            <<"M", "a", "t", "r", "i", "x">>
      [] text = <<"D", "u", "n", "e", "FWQ">> -> <<"D", "u", "n", "e">>

FirstTen(items) == SubSeq(items, 1, IF Len(items) < 10 THEN Len(items) ELSE 10)

\* C9: a search that yields results replaces the whole search entry of the
\* user by the first ten results, the keyword of this search and the time
\* of this search; each user has at most one entry, and a selection picks
\* from that entry.
C9_SearchOverwritesEntry ==
    /\ DOMAIN user_search_cache \subseteq Users
    /\ last.op = "talk" /\ last.handler = "search" /\ last.api_items # <<>> =>
          /\ last.user \in DOMAIN user_search_cache
          /\ user_search_cache[last.user] =
                [results |-> FirstTen(last.api_items),
                 keyword |-> KeywordOf(last.text),
                 timestamp |-> now]
    /\ last.op = "talk" /\ Len(last.selected) = 1 =>
          /\ last.user \in DOMAIN user_search_cache
          /\ last.number \in 1..Len(user_search_cache[last.user].results)
          /\ last.selected[1] =
                user_search_cache[last.user].results[last.number]

\* A later search for another keyword replaced the entry from which the
\* resources still cached were selected.
C9_Witness ==
    /\ last.op = "talk" /\ last.handler = "search"
    /\ last.user \in DOMAIN user_resource_cache
    /\ user_resource_cache[last.user].title = "Dark"
    /\ user_search_cache[last.user].results[1].title = "The Matrix"
    /\ user_search_cache[last.user].keyword = <<"M", "a", "t", "r", "i", "x">>
    /\ user_search_cache[last.user].timestamp = 3601
    /\ user_resource_cache[last.user].timestamp = 2

\* A title selection or a '<n>.<type>' request.
IsSelectionRequest(o) ==
    o.op = "talk" /\ o.handler \in {"selection", "get_resources"}

LiveSearchEntry(u) ==
    /\ u \in DOMAIN user_search_cache
    /\ now - user_search_cache[u].timestamp < 3600

IndexChecked(o) ==
    LET N == Len(user_search_cache[o.user].results)
    IN  IF o.number = 0 \/ o.number > N
        THEN /\ o.replies = <<Reply("invalid", N, "", <<>>)>>
             /\ o.fetches = <<>> /\ o.selected = <<>>
             /\ user_search_cache' = user_search_cache
             /\ user_resource_cache' = user_resource_cache
        ELSE o.selected = <<user_search_cache[o.user].results[o.number]>>

\* C10 as stated: with a live search entry of N hits, a title selection or
\* a '<n>.<type>' request with index 0 or above N gets the invalid-selection
\* reply naming 1..N, fetches nothing and changes no cache; an index in
\* 1..N selects the hit at that position.
C10_Original ==
    [][IsSelectionRequest(last') /\ LiveSearchEntry(last'.user)
         => IndexChecked(last')]_vars

\* C10: with a live search entry of N hits, a title selection, or a
\* '<n>.<type>' request when an API key is configured, with index 0 or
\* above N gets the invalid-selection reply naming 1..N, fetches nothing
\* and changes no cache; an index in 1..N selects the hit at that position.
C10_IndexValidated ==
    [][/\ IsSelectionRequest(last')
       /\ LiveSearchEntry(last'.user)
       /\ last'.handler = "get_resources" => Truthy(api_key)
       => IndexChecked(last')]_vars

\* The index 11 is refused against the ten hits kept of a longer response.
C10_Witness ==
    /\ last.op = "talk" /\ last.handler = "selection"
    /\ last.number = 11
    /\ last.replies = <<Reply("invalid", 10, "", <<>>)>>
    /\ Len(user_search_cache[last.user].results) = 10

\* The URL field of a raw entry of the type ty.
RawUrlField(ty, res) ==
    CASE ty = "115" -> res.share_link
      [] ty = "magnet" -> res.magnet
      [] OTHER -> IF res.url # Missing THEN res.url ELSE res.link

UsableUrl(x) == x \notin {Missing, NoneVal, ""}

\* The reply that lists resources in the message handled last, if any.
ResourceReplies ==
    {i \in 1..Len(last.replies) : last.replies[i].kind = "resources"}

\* C11: every item of a resource entry has a non-empty url, which is the
\* URL field of its type in the raw entry it comes from; raw entries whose
\* URL field is empty or missing give no item, so there are never more
\* items than raw entries; and the transfer never enqueues an empty URL.
C11_ItemsHaveUrl ==
    /\ \A u \in DOMAIN user_resource_cache :
          \A i \in 1..Len(user_resource_cache[u].resources) :
              LET item == user_resource_cache[u].resources[i]
              IN  /\ UsableUrl(item.url)
                  /\ item.type = user_resource_cache[u].resource_type
    /\ last.op = "talk" =>
          \A r \in ResourceReplies :
              LET ty == last.replies[r].s
                  raw == FirstTen(Catalog[ty])
                  urls == SelectSeq([k \in 1..Len(raw) |->
                                        RawUrlField(ty, raw[k])], UsableUrl)
                  items == user_resource_cache[last.user].resources
              IN  /\ [i \in 1..Len(items) |-> items[i].url] = urls
                  /\ Len(items) <= Len(raw)
    /\ last.op = "talk" /\ last.handler = "transfer" =>
          /\ last.url # NoneVal => UsableUrl(last.url)
          /\ \A i \in 1..Len(last.replies) : last.replies[i].s # "ValueError"

\* The second of the two items kept of three raw 115 entries is sent to
\* the transfer.
C11_Witness ==
    /\ last.op = "talk" /\ last.handler = "transfer"
    /\ user_resource_cache[last.user].resource_type = "115"
    /\ Len(user_resource_cache[last.user].resources) = 2
    /\ last.number = 2
    /\ last.url = "https://115.com/s/b"
    /\ Len(last.transfer) >= 1

\* The transmissions of a client operation on one path.
OnPath(o, path) == {i \in 1..Len(o.http) : o.http[i].path = path}

IsClientCall(o) == o.op \in {"search", "get_resources"}

\* C12: in search and in both fetches the proxied path is attempted first;
\* the direct path is attempted only when the proxied attempt ended in a
\* timeout or connection fault, and then once; when the direct attempt
\* fails too the operation reports failure; a response received on the
\* proxied path, whatever its status, never leads to the direct path.
C12_DirectOnlyAfterFault ==
    IsClientCall(last) =>
        LET P == OnPath(last, "proxy")
            D == OnPath(last, "direct")
        IN  /\ last.http # <<>> => 1 \in P
            /\ \A p \in P, d \in D : p < d
            /\ Cardinality(D) <= 1
            /\ D # {} => last.http[Cardinality(P)].kind = "fault"
            /\ \A d \in D : last.http[d].kind # "response" =>
                    ~last.api_ret[1].some
            /\ (P # {} /\ last.http[Cardinality(P)].kind = "response")
                    => D = {}

\* A search whose proxied attempt ran out of retries on connection faults
\* and whose direct attempt was answered.
C12_Witness ==
    /\ last.op = "search"
    /\ Cardinality(OnPath(last, "proxy")) = 4
    /\ \A p \in OnPath(last, "proxy") : last.http[p].kind = "fault"
    /\ Len(last.http) = 5
    /\ last.http[5] = [kind |-> "response", status |-> 200, path |-> "direct"]
    /\ last.api_ret[1].some

RetriedOutcome(t) ==
    t.kind = "fault"
        \/ (t.kind = "response" /\ t.status \in {429, 500, 502, 503, 504, 408})

\* The attempts on one path obey the bounded retry policy: at most 3 of
\* them, each but the last with an outcome that is retried, and the last
\* either the third or with an outcome that is not retried.
PathObeysPolicy(o, path) ==
    LET T == OnPath(o, path)
    IN  /\ Cardinality(T) <= 3
        /\ \A i \in T :
              IF i + 1 \in T
              THEN RetriedOutcome(o.http[i])
              ELSE Cardinality(T) = 3 \/ ~RetriedOutcome(o.http[i])

\* C13: the bounded retry policy of GET requests (retry only on a status
\* in {429, 500, 502, 503, 504, 408} or on a connection-level fault, at
\* most 3 attempts in total) holds for the proxied attempt and for the
\* direct attempt alike, and the direct path is taken only when the
\* retries of the proxied path are used up.
C13_RetryPerPath ==
    IsClientCall(last) =>
        /\ PathObeysPolicy(last, "proxy")
        /\ PathObeysPolicy(last, "direct")
        /\ OnPath(last, "direct") # {} =>
              Cardinality(OnPath(last, "proxy")) >= 3

IsSearchMessage(o) == o.op = "talk" /\ o.handler = "search" /\ o.http # <<>>

\* The outcome of a search by the course of its requests: the status of
\* the response it ended with, or a transport fault.
SearchOutcome(o) ==
    LET final == o.http[Len(o.http)]
    IN  IF final.kind # "response" THEN "NetworkError"
        ELSE IF final.status = 200
        THEN (IF o.api_ret[1].some THEN "Results" ELSE "MalformedBody")
        ELSE IF final.status = 403 THEN "AuthError"
        ELSE IF final.status = 429 THEN "RateLimitError"
        ELSE "UnexpectedStatusError"

ClaimedOutcomes ==
    {"Results", "AuthError", "RateLimitError", "UnexpectedStatusError",
     "NetworkError"}

\* C14: search reports distinguishable outcomes to its caller: what it
\* hands back for results (an empty list included), for 403, for 429, for
\* another status and for a transport fault differs from one outcome to
\* the other, a success value comes from a 200 only, and a rate-limited
\* search is answered to the user with 'try later'.
C14_SearchOutcomesDistinct ==
    [][IsSearchMessage(last') =>
         /\ last'.api_ret[1].some =>
                last'.http[Len(last'.http)] \in
                    {[kind |-> "response", status |-> 200, path |-> p] :
                        p \in {"proxy", "direct"}}
         /\ SearchOutcome(last') = "RateLimitError" =>
                KindsOf(last'.replies) = <<"rate_limited">>
         /\ (/\ IsSearchMessage(last)
             /\ SearchOutcome(last) \in ClaimedOutcomes
             /\ SearchOutcome(last') \in ClaimedOutcomes
             /\ SearchOutcome(last) # SearchOutcome(last'))
                => last.api_ret # last'.api_ret]_vars

IsResourceRequest(o) ==
    /\ o.op = "talk" /\ o.source # "nullbr_fallback"
    /\ MatchesResourceRequest(CleanText(o.text))

IsFetchCall(o) == o.op = "get_resources" /\ o.http # <<>>

\* The outcome of a resource fetch by the course of its requests.
FetchOutcome(o) ==
    LET final == o.http[Len(o.http)]
    IN  IF final.kind # "response" THEN "NetworkError"
        ELSE IF final.status = 200 THEN "Answered"
        ELSE IF final.status = 404 THEN "NotFound"
        ELSE IF final.status = 401 THEN "InsufficientPermissionError"
        ELSE IF final.status = 403 THEN "AuthError"
        ELSE IF final.status = 429 THEN "RateLimitError"
        ELSE "UnexpectedStatusError"

FetchErrors ==
    {"InsufficientPermissionError", "AuthError", "RateLimitError",
     "UnexpectedStatusError"}

\* C16: a resource fetch answered with 404 hands its caller a successful
\* result with no resources, which differs from what it hands back after
\* 401, 403, 429 or another status that is not 200.
C16_NotFoundIsEmptySuccess ==
    [][(IsFetchCall(last') /\ FetchOutcome(last') = "NotFound") =>
         /\ last'.api_ret[1].some /\ last'.api_ret[1].list = <<>>
         /\ (IsFetchCall(last) /\ FetchOutcome(last) \in FetchErrors)
                => last.api_ret # last'.api_ret]_vars

ZeroItems(o) ==
    /\ IsSearchMessage(o)
    /\ o.api_ret[1].some /\ o.api_ret[1].items = <<>>

ExternalFailure(o) ==
    /\ o.op = "talk"
    /\ \/ o.handler = "search" /\ ~o.api_ret[1].some
       \/ /\ o.handler \in {"get_resources", "selection"}
          /\ o.fetches # <<>>
          /\ \A i \in 1..Len(o.fetches) : o.fetches[i].kind = "none"
       \/ /\ o.handler = "transfer" /\ o.transfer # <<>>
          /\ o.replies[Len(o.replies)].kind # "transfer_ok"

\* The replies of a message without the progress notices that precede its
\* external calls.
Reports(o) ==
    SelectSeq(KindsOf(o.replies),
              LAMBDA k : k \notin {"fetching", "transferring"})

\* C18: whatever the message and whatever the external systems answer,
\* talk returns without an exception, and a message during which the
\* external calls failed is answered with exactly one reply about it.
C18_FailuresBecomeOneReply ==
    last.op = "talk" =>
        /\ last.escaped = NoneVal
        /\ ExternalFailure(last) => Len(Reports(last)) = 1

SameEntry(cache1, cache2, u) ==
    /\ u \in DOMAIN cache1 <=> u \in DOMAIN cache2
    /\ u \in DOMAIN cache1 => cache1[u] = cache2[u]

\* C19: handling a message of one user, whatever its outcome, leaves the
\* search entry and the resource entry of every other user as they were:
\* none is created, changed or removed.
C19_OtherUsersUntouched ==
    [][last'.op = "talk" =>
         \A b \in Users \ {last'.user} :
            /\ SameEntry(user_search_cache, user_search_cache', b)
            /\ SameEntry(user_resource_cache, user_resource_cache', b)]_vars

\* u1's search has just stored an entry while u2 holds a search entry for
\* another keyword and a resource entry.
C19_Witness ==
    /\ last.op = "talk" /\ last.user = "u1" /\ last.handler = "search"
    /\ {"u1", "u2"} \subseteq DOMAIN user_search_cache
    /\ "u2" \in DOMAIN user_resource_cache
    /\ user_search_cache["u1"].keyword = last.keyword
    /\ user_search_cache["u2"].keyword # last.keyword

ValidSelection(o) ==
    /\ IsNumberMessage(o) /\ IsDecimal(CleanText(o.text))
    /\ o.user \in DOMAIN user_search_cache
    /\ o.number \in 1..Len(user_search_cache[o.user].results)

\* C20: without an API key, a number that is a valid index of the user's
\* search entry is answered with one details reply that carries the TMDB ID
\* and the title of the hit at that index and lists, without links, exactly
\* the resource types the hit is flagged for and the configuration enables;
\* the client is asked for nothing and no cache entry is created or
\* changed.
C20_KeylessSelectionShowsDetails ==
    [][(~Truthy(api_key) /\ ValidSelection(last')) =>
         LET hit == user_search_cache[last'.user].results[last'.number]
         IN  /\ Len(last'.replies) = 1
             /\ last'.replies[1].kind = "detail"
             /\ last'.replies[1].n = hit.tmdbid
             /\ last'.replies[1].s = hit.title
             /\ Range(last'.replies[1].items) = hit.flags \cap enable_types
             /\ Len(last'.replies[1].items) =
                    Cardinality(hit.flags \cap enable_types)
             /\ last'.fetches = <<>> /\ last'.http = <<>>
             /\ last'.url = NoneVal
             /\ user_resource_cache' = user_resource_cache
             /\ user_search_cache' = user_search_cache]_vars

\* '1' selects The Matrix (TMDB ID 603): its magnet flag is not listed
\* because magnet links are switched off, and nothing is cached.
C20_Witness ==
    /\ ~Truthy(api_key)
    /\ IsNumberMessage(last) /\ last.number = 1
    /\ KindsOf(last.replies) = <<"detail">>
    /\ last.replies[1].n = 603
    /\ last.replies[1].items = <<"115", "video">>
    /\ "magnet" \in last.selected[1].flags
    /\ last.user \notin DOMAIN user_resource_cache

IsIndexMessage(o) == IsNumberMessage(o) \/ IsResourceRequest(o)

\* The user's search entry is there and no longer live.
SearchEntryLapsed(u) ==
    /\ u \in DOMAIN user_search_cache
    /\ ~(now - user_search_cache[u].timestamp < CacheTTL)

\* C21: once the search entry of a user has expired, every numeric or
\* '<n>.<type>' message of that user is answered with the expired reply
\* alone and starts no fetch and no transfer; only a search that stores a
\* new entry ends this.
C21_ExpiryCollapsesToIdle ==
    [][(IsIndexMessage(last') /\ SearchEntryLapsed(last'.user)) =>
         /\ Len(last'.replies) = 1
         /\ last'.replies[1].kind \in {"expired", "resource_expired"}
         /\ last'.fetches = <<>> /\ last'.transfer = <<>>
         /\ last'.url = NoneVal
         /\ user_search_cache' = user_search_cache]_vars

IsFallbackMarked(o) == o.op = "talk" /\ o.source = "nullbr_fallback"

\* C22: a message marked as coming from the fallback path is dropped
\* whatever its text: no handler runs, nothing is replied, requested,
\* transferred or read, no exception is raised and both caches stay as they
\* are; and no handled message, the fallback search included, sends an
\* event that would be dispatched in turn.
C22_FallbackMessagesDiscarded ==
    [][/\ IsFallbackMarked(last') =>
            /\ last'.handler = "none"
            /\ last'.replies = <<>> /\ last'.fetches = <<>>
            /\ last'.http = <<>> /\ last'.transfer = <<>>
            /\ last'.fallback = <<>> /\ last'.reads = <<>>
            /\ last'.escaped = NoneVal
            /\ user_search_cache' = user_search_cache
            /\ user_resource_cache' = user_resource_cache
            /\ cms_client' = cms_client
       /\ last'.op = "talk" => last'.events = <<>>]_vars

\* 'Matrix?' arrives with the fallback marker while the user holds a search
\* entry and a resource entry.
C22_Witness ==
    /\ IsFallbackMarked(last) /\ last.text = TxtMatrixQ
    /\ last.user \in DOMAIN user_search_cache
    /\ last.user \in DOMAIN user_resource_cache

\* The texts that are neither a '<n>.<type>' request nor a number nor a
\* question with a keyword: a greeting, the empty text, a lone question
\* mark, a blank before a question mark, '1.5' and a superscript before
\* '.115'.
FallsThrough(text) ==
    text \in {TxtHi, TxtEmpty, TxtQ, TxtSpaceQ, Txt1Dot5, TxtSup2Dot115}

Silent(o) ==
    /\ o.handler = "none" /\ o.replies = <<>>
    /\ o.fetches = <<>> /\ o.http = <<>> /\ o.transfer = <<>>
    /\ o.fallback = <<>> /\ o.escaped = NoneVal

\* C23: a message that is no '<n>.<type>' request, is not all digits and
\* has no trailing question mark, or has one but nothing before it, and any
\* message at all while the plugin is disabled or has no search client,
\* is ignored: nothing is replied or requested and the caches and the
\* transfer client stay as they are.
C23_OtherMessagesIgnored ==
    [][(/\ last'.op = "talk"
        /\ FallsThrough(last'.text) \/ ~enabled \/ ~client) =>
         /\ Silent(last')
         /\ user_search_cache' = user_search_cache
         /\ user_resource_cache' = user_resource_cache
         /\ cms_client' = cms_client]_vars

\* A blank before a question mark is ignored by the working plugin while
\* the user holds a search entry and a resource entry.
C23_Witness ==
    /\ last.op = "talk" /\ last.text = TxtSpaceQ /\ Silent(last)
    /\ enabled /\ client
    /\ last.user \in DOMAIN user_search_cache
    /\ last.user \in DOMAIN user_resource_cache

IsCmsCall(o) == o.op \in {"ensure_valid_token", "add_share_down"}

\* A call of the transfer client that logged in and saw every login fail.
LoginsFailed(o) ==
    /\ IsCmsCall(o) /\ Logins(o.transfer) # {}
    /\ \A i \in Logins(o.transfer) : o.transfer[i].resp # "ok"

\* The 401 handler of add_share_down discards the token before it logs in.
Discarded(o) ==
    \E i \in 1..Len(o.transfer) : o.transfer[i].resp = "http401"

\* C24: a login answered with a code other than 200, or with a payload
\* without a token, or with an HTTP error, ends the call with an error and
\* stores nothing: expiry and Authorization header stay as they were, and
\* the token is the one held before (or none, where the 401 handler had
\* discarded it before the login).
C24_FailedLoginStoresNothing ==
    LoginsFailed(last) =>
        LET before == last.pre[1]
            after == cms_client[1]
        IN  /\ last.exc # NoneVal
            /\ after.token_expiry = before.token_expiry
            /\ after.auth = before.auth
            /\ after.token \in
                   {before.token} \cup
                       (IF Discarded(last) THEN {NoneVal} ELSE {})
            /\ last.op = "ensure_valid_token" => after = before

\* A refresh due 82800 s after the login gets a payload without a token;
\* the client keeps the token it held.
C24_Witness ==
    /\ last.op = "ensure_valid_token"
    /\ Len(last.transfer) = 1 /\ last.transfer[1].resp = "no_token"
    /\ last.exc # NoneVal
    /\ Truthy(last.pre[1].token) /\ cms_client[1] = last.pre[1]
    /\ last.at >= RefreshedAt(last.pre[1]) + 82800

\* C25: handling a number or a '<n>.<type>' message (a title selection, a
\* resource request or a transfer) leaves the search entry of the user as
\* it was, and a transfer, accepted or failed, leaves the resource entry of
\* the user as it was, so that the same number is a transfer request again.
C25_ReadsLeaveEntries ==
    [][/\ IsIndexMessage(last') =>
            SameEntry(user_search_cache, user_search_cache', last'.user)
       /\ (last'.op = "talk" /\ last'.handler = "transfer") =>
            /\ SameEntry(user_resource_cache, user_resource_cache',
                         last'.user)
            /\ last'.url # NoneVal =>
                   /\ last'.user \in DOMAIN user_resource_cache'
                   /\ DispatchNumber(user_resource_cache', last'.user, now,
                                     last'.number) = "transfer"]_vars

\* A transfer of resource 1 has failed; the user still holds the search
\* entry and the resource entry with that resource.
C25_Witness ==
    /\ last.op = "talk" /\ last.handler = "transfer" /\ last.number = 1
    /\ KindsOf(last.replies) = <<"transferring", "transfer_error">>
    /\ last.user \in DOMAIN user_search_cache
    /\ last.user \in DOMAIN user_resource_cache
    /\ user_resource_cache[last.user].resources[1].url = last.url

\* The message handled in this step left a cache entry of its user other
\* than it found it.
EntryChanged(cache1, cache2, o) == ~SameEntry(cache1, cache2, o.user)

\* The last fetch of a message returned records of its type.
LookupReturnedRecords(o) ==
    /\ o.fetches # <<>>
    /\ o.fetches[Len(o.fetches)].kind = "full"
    /\ Catalog[o.fetches[Len(o.fetches)].type] # <<>>

SearchReturnedHits(o) ==
    /\ o.handler = "search" /\ o.api_ret # <<>>
    /\ o.api_ret[1].some /\ o.api_ret[1].items # <<>>

SearchWritesOnlyOnHits ==
    /\ EntryChanged(user_search_cache, user_search_cache', last') =>
            SearchReturnedHits(last')
    /\ (last'.handler = "search" /\ ~SearchReturnedHits(last')) =>
            /\ user_search_cache' = user_search_cache
            /\ user_resource_cache' = user_resource_cache

\* C26 as stated: a resource entry is written only after a lookup that gave
\* at least one resource with a usable link for the requested type, a
\* search entry only after a search with at least one hit; a failed or
\* empty search or lookup leaves the entries as they were.
C26_Original ==
    [][last'.op = "talk" =>
         /\ SearchWritesOnlyOnHits
         /\ EntryChanged(user_resource_cache, user_resource_cache', last') =>
                /\ LookupReturnedRecords(last')
                /\ user_resource_cache'[last'.user].resources # <<>>
         /\ ~LookupReturnedRecords(last') =>
                user_resource_cache' = user_resource_cache]_vars

\* C26: a resource entry is written only after a lookup that returned at
\* least one record for the requested type, whether or not a record has a
\* usable link (the entry holds the records that have one, possibly none);
\* a search entry is written only after a search with at least one hit; a
\* failed or empty search or lookup leaves the entries as they were.
C26_WrittenOnlyOnRecords ==
    [][last'.op = "talk" =>
         /\ SearchWritesOnlyOnHits
         /\ EntryChanged(user_resource_cache, user_resource_cache', last') =>
                /\ LookupReturnedRecords(last')
                /\ user_resource_cache'[last'.user].resource_type =
                       last'.fetches[Len(last'.fetches)].type
         /\ ~LookupReturnedRecords(last') =>
                user_resource_cache' = user_resource_cache]_vars

\* '1.video' returns one record whose url is null: the entry written for
\* the user holds no resources.
C26_Witness ==
    /\ last.op = "talk" /\ last.handler = "get_resources"
    /\ last.resource_type = "video"
    /\ LookupReturnedRecords(last)
    /\ user_resource_cache[last.user].resource_type = "video"
    /\ user_resource_cache[last.user].resources = <<>>

\* C27: every read of a cache entry takes the entry as live exactly when
\* its age is less than 3600 seconds: at 3600 seconds and beyond the
\* dispatcher and the handlers alike treat it as absent.
C27_LiveBelowTTLAtEveryRead ==
    last.op = "talk" =>
        \A i \in 1..Len(last.reads) :
            LET r == last.reads[i]
            IN  r.present =>
                    IF r.age < 3600 THEN UsesEntry(r) ELSE TreatsAsAbsent(r)

\* The records the last fetch of a message returned.
ReturnedRecords(o) ==
    LET f == o.fetches[Len(o.fetches)]
    IN  IF f.kind = "many" THEN RecordsMany(f.type)
        ELSE IF f.kind = "full" THEN Catalog[f.type] ELSE <<>>

\* C29: a search entry never holds more than 10 hits and a resource entry
\* never more than 10 items, whatever the API returned; the hits are the
\* first ten of the response in its order, the items are those of the
\* first ten records that have a link, in the order of the response.
C29_EntriesHoldAtMostTen ==
    /\ \A u \in DOMAIN user_search_cache :
            Len(user_search_cache[u].results) <= 10
    /\ \A u \in DOMAIN user_resource_cache :
            Len(user_resource_cache[u].resources) <= 10
    /\ (last.op = "talk" /\ last.handler = "search"
                         /\ last.api_items # <<>>) =>
            user_search_cache[last.user].results = FirstTen(last.api_items)
    /\ (last.op = "talk" /\ ResourceReplies # {}) =>
            LET ty == last.fetches[Len(last.fetches)].type
                raw == FirstTen(ReturnedRecords(last))
                urls == SelectSeq([k \in 1..Len(raw) |->
                                      RawUrlField(ty, raw[k])], UsableUrl)
                items == user_resource_cache[last.user].resources
            IN  [i \in 1..Len(items) |-> items[i].url] = urls

\* A fetch has returned more than ten 115 records: the entry holds the nine
\* of the first ten that have a link, while the user's search entry holds
\* ten hits of a longer response.
C29_Witness ==
    /\ last.op = "talk" /\ last.fetches # <<>>
    /\ last.fetches[Len(last.fetches)].kind = "many"
    /\ Len(ReturnedRecords(last)) > 10
    /\ Len(user_resource_cache[last.user].resources) = 9
    /\ \E u \in DOMAIN user_search_cache :
            Len(user_search_cache[u].results) = 10

TreatedAsTransfer(o) ==
    /\ o.op = "talk"
    /\ o.handler = "transfer" \/ o.url # NoneVal \/ Posts(o.transfer) # {}

\* C30: a numeric message is handled as a transfer, and the transfer client
\* is asked to enqueue a link, only while the transfer system is enabled
\* with a client and an API key is configured.
C30_TransferNeedsKeyAndClient ==
    TreatedAsTransfer(last) =>
        /\ cms_enabled /\ cms_client # <<>>
        /\ Truthy(api_key)

\* The caches hold exactly the entries the stores put there: no step leaves
\* an entry between two stores.
CachesAsWritten ==
    /\ user_search_cache = written.search
    /\ user_resource_cache = written.resource

\* A handler step that took or used an entry of the resource cache.
OnResourceEntry ==
    last'.op \in {"transfer_read", "transfer_use"} /\ last'.entry # <<>>

\* The entry a reading step takes is the whole entry of the last store.
ReadsWholeEntry ==
    /\ last'.op = "transfer_read" /\ last'.entry # <<>>
        => last'.entry = <<written.resource[last'.user]>>
    /\ last'.op = "search_read" /\ last'.entry # <<>>
        => last'.entry = <<written.search[last'.user]>>
    /\ last'.op = "dispatch" /\ last'.checked # <<>>
        => last'.checked = <<written.resource[last'.user]>>

\* From its read on, handle_resource_transfer, handle_resource_selection and
\* handle_get_resources work on the entry their own `cache` holds.
UsesEntryRead ==
    last'.op \in {"transfer_use", "search_use"}
        => last'.entry = handlers[last'.worker].cache

\* The entries stay whole and each function keeps the entry it read, under
\* every interleaving.
RaceEntriesWhole ==
    [][CachesAsWritten' /\ ReadsWholeEntry /\ UsesEntryRead]_vars

\* C28: under any interleaving of the messages in progress every entry a
\* handler takes from a cache is one complete stored entry, and the entry a
\* transfer goes on to check and use is the one whose validity check in
\* talk() made the message a transfer.
C28_OneCompleteEntryFromCheckToUse ==
    [][/\ CachesAsWritten'
       /\ ReadsWholeEntry
       /\ UsesEntryRead
       /\ OnResourceEntry => last'.entry = last'.checked]_vars

\* The entry the message handled last stored for its user, beside the list
\* it showed.
ShownAndStored(o) ==
    /\ o.op = "talk" /\ ResourceReplies # {}
    /\ o.user \in DOMAIN user_resource_cache

\* C31: the n-th link shown in a resource-list reply is the url of the n-th
\* item of the resource entry written by the same message, and every number
\* shown is an index of that entry (so that a transfer request n enqueues
\* the link displayed as item n).
C31_ShownNumberIsTransferIndex ==
    ShownAndStored(last) =>
        \A k \in ResourceReplies :
            LET shown == last.replies[k].items
                stored == user_resource_cache[last.user].resources
            IN  \A n \in 1..Len(shown) :
                    /\ n <= Len(stored)
                    /\ stored[n].url = shown[n]

\* The message handled last was a search that listed hits.
ListedHits(o) ==
    /\ o.op = "talk" /\ o.handler = "search"
    /\ KindsOf(o.replies) = <<"search_results">>

\* C32: the numeric message n that follows a user's successful search, with
\* n within the hits listed, is handled as the selection of hit n of the new
\* list; a resource entry left from an earlier title does not make it a
\* transfer.
C32_NumberAfterSearchSelects ==
    [][(/\ ListedHits(last)
        /\ IsNumberMessage(last') /\ last'.user = last.user
        /\ last'.number \in 1..Len(user_search_cache[last.user].results))
          => /\ last'.handler = "selection"
             /\ last'.selected =
                    <<user_search_cache[last.user].results[last'.number]>>
             /\ last'.url = NoneVal]_vars

\* The call began with a login, and that login failed.
FirstLoginFailed(tr) ==
    tr # <<>> /\ tr[1].ev = "login" /\ tr[1].resp # "ok"

\* C33: one add_share_down call performs at most one login, and a failure
\* of the token acquisition at its start, a 401 of the login endpoint
\* included, ends the call: no second login and no enqueue POST follow.
C33_OneLoginPerCall ==
    last.op = "add_share_down" =>
        /\ Cardinality(Logins(last.transfer)) <= 1
        /\ FirstLoginFailed(last.transfer) =>
              /\ Len(last.transfer) = 1
              /\ last.exc # NoneVal

\* C34: every fetch a message asks of the search client is for a resource
\* type that is enabled in the configuration and that the selected hit
\* flags as available, in the priority walk and for a '<n>.<type>' request
\* alike.
C34_FetchOnlyEnabledFlaggedTypes ==
    (last.op = "talk" /\ last.fetches # <<>>) =>
        \A i \in 1..Len(last.fetches) :
            /\ last.fetches[i].type \in enable_types
            /\ last.fetches[i].type \in last.selected[1].flags

\* The values priority_1 .. priority_4 of the configuration init_plugin was
\* called with last.
ConfiguredPriorities == last.pre[1]

PairwiseDistinct(prios) ==
    \A i, j \in 1..Len(prios) : i # j => prios[i] # prios[j]

C36_EnabledOnlyWithClient == enabled => client

\* A message that finds no entry of its user in either cache and serves
\* nothing: no hit selected, no fetch, no link transferred.
ServesNothing(o) ==
    /\ o.selected = <<>> /\ o.fetches = <<>>
    /\ o.url = NoneVal /\ o.transfer = <<>>

ClientAtRequest == last.pre[1]

\* C38: with two add_share_down calls in progress on the one client, every
\* enqueue POST is sent while the client holds a token and under a header
\* that carries that token, and a login is made only while the client needs
\* one, so that one stale token or one 401 leads to one login.
C38_ConcurrentCallsKeepTokenConsistent ==
    /\ last.op = "post" =>
          /\ Truthy(ClientAtRequest.token)
          /\ ClientAtRequest.auth = ClientAtRequest.token
    /\ last.op = "login" => NeedsLogin(ClientAtRequest, last.at)

\* A message for which the priority walk or the '<n>.<type>' handler took a
\* hit without tmdbid from the search entry.
SelectedWithoutTmdbId(o) ==
    /\ o.op = "talk" /\ o.selected # <<>> /\ o.selected[1].tmdbid = 0
    /\ \/ o.handler = "get_resources"
       \/ "get_resources_by_priority" \in Range(o.entered)

\* C39: for a selected hit without tmdbid the priority walk and the
\* '<n>.<type>' handler reply with the missing-TMDB-ID error, fetch nothing,
\* start no fallback search and leave both caches as they are.
C39_NoTmdbIdNoFetch ==
    [][SelectedWithoutTmdbId(last') =>
         /\ last'.replies[Len(last'.replies)].kind = "missing_tmdbid"
         /\ \A i \in 1..(Len(last'.replies) - 1) :
                last'.replies[i].kind = "fetching"
         /\ last'.fetches = <<>> /\ last'.http = <<>>
         /\ last'.fallback = <<>>
         /\ user_search_cache' = user_search_cache
         /\ user_resource_cache' = user_resource_cache]_vars

\* The hit without tmdbid is chosen by its number and the walk refuses it.
C39_Witness ==
    /\ last.op = "talk" /\ last.handler = "selection"
    /\ last.selected = <<HitNoId>>
    /\ KindsOf(last.replies) = <<"fetching", "missing_tmdbid">>

\* The hits of a response that carry the 115 flag, in the order of the
\* response.
Flagged115(items) == SelectSeq(items, LAMBDA item : "115" \in item.flags)

\* C40: the search operation of nullbr_search, with the plugin enabled and
\* holding a client and the service answering the search with a non-empty
\* item list, returns one result for each item that has the 115 flag, in
\* the order of the response; it returns None only when the plugin is
\* disabled or without client, the call of the service fails or the
\* service has no items; and no exception leaves it.
C40_HostSearchReturns115Items ==
    last.op = "host_search" =>
        LET answer == last.api_ret[1]
            hits == Flagged115(answer.items)
        IN  IF enabled /\ client /\ answer.some /\ answer.items # <<>>
            THEN /\ last.events # <<>>
                 /\ Len(last.events[1]) = Len(hits)
                 /\ \A i \in 1..Len(hits) :
                        /\ last.events[1][i].title = hits[i].title
                        /\ last.events[1][i].tmdbid = hits[i].tmdbid
            ELSE last.events = <<>>

====
